---- MODULE Spec2Model ----
(***************************************************************************)
(* Oriented bounding boxes of geographic tiles                             *)
(* (src/src/Renderer/ThreeExtended/OBB.js).                                *)
(*                                                                         *)
(* Numbers.  Lengths are integers in units of the radius over Radius; a    *)
(* unit vector is an integer vector of length UnitScale.  Angles are       *)
(* integer multiples of the angle atan(3/4), whose multiples have rational *)
(* sines and cosines; the half turn is the step HalfTurn.  An orientation  *)
(* (THREE.Quaternion) is the rotation it denotes, written as the triple of *)
(* the images of the three unit vectors.  The extents of the model are     *)
(* centred on the meridian 0 or the half turn, at the latitude of 0 or of  *)
(* one angle step, so every length, unit vector and rotation of a run is   *)
(* rational and every division of the model is exact.                      *)
(*                                                                         *)
(* Objects.  THREE.Vector3 values that the source holds by reference       *)
(* (box3D.min, box3D.max, natBox.min, natBox.max, position, oPosition)     *)
(* live in the heap, and an OBB holds their references, so that two OBBs   *)
(* sharing a vector is a state the model can express.                      *)
(***************************************************************************)
EXTENDS Integers, Sequences, FiniteSets, TLC

-----------------------------------------------------------------------------
(* THREE.Vector3 / THREE.Quaternion primitives used by OBB.js *)

Zero3 == <<0, 0, 0>>

\* a unit vector is an integer vector of length UnitScale
UnitScale == 5

\* "var x = v; ... x ..." : the value v is computed once and named x in F
Var(v, F(_)) == CHOOSE r \in {F(x) : x \in {v}} : TRUE

AbsI(x) == IF x < 0 THEN -x ELSE x
MaxI(a, b) == IF a > b THEN a ELSE b
MinI(a, b) == IF a < b THEN a ELSE b

VAdd(a, b) == <<a[1] + b[1], a[2] + b[2], a[3] + b[3]>>
VSub(a, b) == <<a[1] - b[1], a[2] - b[2], a[3] - b[3]>>
VScale(a, s) == <<a[1] * s, a[2] * s, a[3] * s>>
VDot(a, b) == a[1] * b[1] + a[2] * b[2] + a[3] * b[3]
VCross(a, b) == <<a[2] * b[3] - a[3] * b[2],
                  a[3] * b[1] - a[1] * b[3],
                  a[1] * b[2] - a[2] * b[1]>>
VMax(a, b) == <<MaxI(a[1], b[1]), MaxI(a[2], b[2]), MaxI(a[3], b[3])>>
VMin(a, b) == <<MinI(a[1], b[1]), MinI(a[2], b[2]), MinI(a[3], b[3])>>

VDivide(a, s) == <<a[1] \div s, a[2] \div s, a[3] \div s>>

RECURSIVE Gcd(_, _)
Gcd(a, b) == IF b = 0 THEN a ELSE Gcd(b, a % b)

\* Vector3.length(): the vector is a multiple g of an integer vector r with no
\* common factor, and its length is g times the length of r, an integer for
\* every vector of the model
VLength(a) ==
    Var(Gcd(Gcd(AbsI(a[1]), AbsI(a[2])), AbsI(a[3])), LAMBDA g :
        IF g = 0 THEN 0
        ELSE Var(VDivide(a, g), LAMBDA r :
                 g * (CHOOSE l \in 0..(AbsI(r[1]) + AbsI(r[2]) + AbsI(r[3])) :
                          l * l = VDot(r, r))))
\* Vector3.normalize(): a zero vector stays zero (three.js divides by length || 1)
VNormalize(a) ==
    Var(VLength(a), LAMBDA l :
        VDivide(VScale(a, UnitScale), IF l = 0 THEN 1 ELSE l))
VDistanceTo(a, b) == VLength(VSub(a, b))

\* a rotation: <<image of (1,0,0), image of (0,1,0), image of (0,0,1)>>, unit
\* vectors
QIdentity == <<<<UnitScale, 0, 0>>, <<0, UnitScale, 0>>, <<0, 0, UnitScale>>>>

\* Vector3.applyQuaternion(q)
ApplyQuaternion(v, q) ==
    VDivide(VAdd(VAdd(VScale(q[1], v[1]), VScale(q[2], v[2])), VScale(q[3], v[3])),
            UnitScale)

\* Quaternion.multiply: a.multiply(b) rotates by b first, then by a
QMultiply(a, b) ==
    <<ApplyQuaternion(b[1], a), ApplyQuaternion(b[2], a), ApplyQuaternion(b[3], a)>>

\* rotation about the unit axis ax with cosine c/s and sine sn/s (Rodrigues)
AxisRotation(ax, c, sn, s) ==
    LET img(v) ==
            VDivide(VAdd(VAdd(VScale(v, c * UnitScale * UnitScale),
                              VScale(VCross(ax, v), sn * UnitScale)),
                         VScale(ax, VDot(ax, v) * (s - c))),
                    s * UnitScale * UnitScale)
    IN  <<img(QIdentity[1]), img(QIdentity[2]), img(QIdentity[3])>>

\* Quaternion.setFromUnitVectors(vFrom, vTo) for equal or perpendicular unit
\* vectors: the quaternion (vFrom x vTo, 1 + vFrom.vTo) normalised, that is the
\* rotation about vFrom x vTo with cosine vFrom.vTo and sine |vFrom x vTo|
SetFromUnitVectors(vFrom, vTo) ==
    Var(VCross(vFrom, vTo), LAMBDA ax :
        IF ax = Zero3 THEN QIdentity
        ELSE AxisRotation(VNormalize(ax), VDot(vFrom, vTo), VLength(ax),
                          UnitScale * UnitScale))

-----------------------------------------------------------------------------
(* Geographic coordinates (Core/Geographic/Coordinates, Extent) *)

\* the angle step that stands for pi
HalfTurn == 1000
\* sines and cosines are integers over TrigScale
TrigScale == 25
\* cosine and sine of 0, 1 and 2 steps, over TrigScale
CosTable == <<25, 20, 7>>
SinTable == <<0, 15, 24>>
\* the radius of the sphere, in units of length
Radius == 6250000
\* the steps around 0 and around the half turn that have a table entry
MaxStep == Len(CosTable) - 1

\* a = Turned(a) * HalfTurn + Residue(a), with |Residue(a)| <= MaxStep
Turned(a) == IF AbsI(a) > HalfTurn \div 2 THEN 1 ELSE 0
Residue(a) ==
    IF a > HalfTurn \div 2 THEN a - HalfTurn
    ELSE IF a < -(HalfTurn \div 2) THEN a + HalfTurn
    ELSE a

Cos(a) == (IF Turned(a) = 1 THEN -1 ELSE 1) * CosTable[AbsI(Residue(a)) + 1]
Sin(a) ==
    (IF Turned(a) = 1 THEN -1 ELSE 1) * (IF Residue(a) < 0 THEN -1 ELSE 1)
        * SinTable[AbsI(Residue(a)) + 1]

\* Quaternion.setFromAxisAngle(axis, angle)
SetFromAxisAngle(ax, angle) == AxisRotation(ax, Cos(angle), Sin(angle), TrigScale)

\* coordinates.as('EPSG:4978').xyz(): geocentric Cartesian position of a point of
\* the surface
ToCartesian(c) ==
    VScale(<<Cos(c.lat) * Cos(c.lon), Cos(c.lat) * Sin(c.lon), TrigScale * Sin(c.lat)>>,
           Radius \div (TrigScale * TrigScale))

\* new C.EPSG_4326_Radians(longitude, latitude)
EPSG_4326_Radians(lon, lat) == [lon |-> lon, lat |-> lat]

\* extent.dimensions(), extent.center()
Dimensions(e) == [x |-> AbsI(e.east - e.west), y |-> AbsI(e.north - e.south)]
Center(e) ==
    EPSG_4326_Radians(e.west + Dimensions(e).x \div 2, e.south + Dimensions(e).y \div 2)

-----------------------------------------------------------------------------
(* OBB.extentToOBB: the geometry (OBB.js lines 114-179) *)

\* the running maximum starts at -MinMaxStart on each axis, the running minimum
\* at +MinMaxStart
MinMaxStart == 1000

\* the cardinals with thetaStart at the north edge and thetaLength counted
\* down to the south
CardinalsFromNorth(extent) ==
    LET bboxDimension == Dimensions(extent)
        phiStart == extent.west
        phiLength == bboxDimension.x
        thetaStart == extent.north
        thetaLength == -bboxDimension.y
    IN  << EPSG_4326_Radians(phiStart, thetaStart),
           EPSG_4326_Radians(phiStart + bboxDimension.x \div 2, thetaStart),
           EPSG_4326_Radians(phiStart + phiLength, thetaStart),
           EPSG_4326_Radians(phiStart + phiLength, thetaStart - bboxDimension.y \div 2),
           EPSG_4326_Radians(phiStart + phiLength, thetaStart + thetaLength),
           EPSG_4326_Radians(phiStart + bboxDimension.x \div 2, thetaStart + thetaLength),
           EPSG_4326_Radians(phiStart, thetaStart + thetaLength),
           EPSG_4326_Radians(phiStart, thetaStart - bboxDimension.y \div 2),
           Center(extent) >>

\*      0---1---2
\*      |       |
\*      7   8   3
\*      |       |
\*      6---5---4
Cardinals(extent) ==
    LET bboxDimension == Dimensions(extent)
        phiStart == extent.west
        phiLength == bboxDimension.x
        thetaStart == extent.south
        thetaLength == bboxDimension.y
    IN  << EPSG_4326_Radians(phiStart, thetaStart),
           EPSG_4326_Radians(phiStart + bboxDimension.x \div 2, thetaStart),
           EPSG_4326_Radians(phiStart + phiLength, thetaStart),
           EPSG_4326_Radians(phiStart + phiLength, thetaStart + bboxDimension.y \div 2),
           EPSG_4326_Radians(phiStart + phiLength, thetaStart + thetaLength),
           EPSG_4326_Radians(phiStart + bboxDimension.x \div 2, thetaStart + thetaLength),
           EPSG_4326_Radians(phiStart, thetaStart + thetaLength),
           EPSG_4326_Radians(phiStart, thetaStart + bboxDimension.y \div 2),
           Center(extent) >>

\* Plane.projectPoint for the plane through the origin with unit normal n
ProjectPoint(n, p) ==
    VDivide(VSub(VScale(p, UnitScale * UnitScale), VScale(n, VDot(n, p))),
            UnitScale * UnitScale)

\* one turn of a loop that leaves the running maximum as it is
CardinalStepMaxKept(cardinal, centerWorld, normal, qRotY, acc) ==
    Var(ToCartesian(cardinal), LAMBDA cardinal3D :
    Var(ProjectPoint(normal, cardinal3D), LAMBDA projected :
    Var(VDistanceTo(projected, VSub(cardinal3D, centerWorld)), LAMBDA d :
    Var(ApplyQuaternion(projected, qRotY), LAMBDA rotated :
        [ cardin3DPlane |-> Append(acc.cardin3DPlane, rotated),
          halfMaxHeight |-> MaxI(acc.halfMaxHeight, d \div 2),
          maxV |-> acc.maxV,
          minV |-> VMin(acc.minV, rotated) ]))))

\* one turn of the loop over the cardinals (lines 161-168)
CardinalStep(cardinal, centerWorld, normal, qRotY, acc) ==
    Var(ToCartesian(cardinal), LAMBDA cardinal3D :
    Var(ProjectPoint(normal, cardinal3D), LAMBDA projected :
    Var(VDistanceTo(projected, VSub(cardinal3D, centerWorld)), LAMBDA d :
    Var(ApplyQuaternion(projected, qRotY), LAMBDA rotated :
        [ cardin3DPlane |-> Append(acc.cardin3DPlane, rotated),
          halfMaxHeight |-> MaxI(acc.halfMaxHeight, d \div 2),
          maxV |-> VMax(acc.maxV, rotated),
          minV |-> VMin(acc.minV, rotated) ]))))

\* the loop over the cardinals, from index i on
RECURSIVE CardinalLoop(_, _, _, _, _, _)
CardinalLoop(cardinals, centerWorld, normal, qRotY, i, acc) ==
    IF i > Len(cardinals) THEN acc
    ELSE Var(CardinalStep(cardinals[i], centerWorld, normal, qRotY, acc),
             LAMBDA next :
                 CardinalLoop(cardinals, centerWorld, normal, qRotY, i + 1, next))

\* the same with cardin3DPlane[1], the south edge midpoint, at line 178
ExtentGeometrySouthMid(extent) ==
    Var(ToCartesian(Center(extent)), LAMBDA centerWorld :
    Var(VNormalize(centerWorld), LAMBDA normal :
    Var(SetFromUnitVectors(normal, QIdentity[3]), LAMBDA planeZ :
    Var(QMultiply(SetFromAxisAngle(QIdentity[3], -Center(extent).lon), planeZ),
        LAMBDA qRotY :
    Var(Cardinals(extent), LAMBDA cardinals :
    Var(CardinalLoop(cardinals, centerWorld, normal, qRotY, 1,
            [ cardin3DPlane |-> <<>>,
              halfMaxHeight |-> 0,
              maxV |-> <<-MinMaxStart, -MinMaxStart, -MinMaxStart>>,
              minV |-> <<MinMaxStart, MinMaxStart, MinMaxStart>> ]),
        LAMBDA loop :
    LET halfLength == AbsI(loop.maxV[2] - loop.minV[2]) \div 2
        halfWidth == AbsI(loop.maxV[1] - loop.minV[1]) \div 2
        delta == halfWidth - AbsI(loop.cardin3DPlane[2][1])
    IN  [ centerWorld |-> centerWorld,
          normal |-> normal,
          cardin3DPlane |-> loop.cardin3DPlane,
          \* the sample whose projection delta reads
          deltaSample |-> cardinals[2],
          max |-> <<halfLength, halfWidth, loop.halfMaxHeight>>,
          min |-> <<-halfLength, -halfWidth, -loop.halfMaxHeight>>,
          translate |-> <<0, delta, -loop.halfMaxHeight>> ]))))))

\* what extentToOBB hands to the OBB constructor
ExtentGeometry(extent) ==
    Var(ToCartesian(Center(extent)), LAMBDA centerWorld :
    Var(VNormalize(centerWorld), LAMBDA normal :
    Var(SetFromUnitVectors(normal, QIdentity[3]), LAMBDA planeZ :
    Var(QMultiply(SetFromAxisAngle(QIdentity[3], -Center(extent).lon), planeZ),
        LAMBDA qRotY :
    Var(Cardinals(extent), LAMBDA cardinals :
    Var(CardinalLoop(cardinals, centerWorld, normal, qRotY, 1,
            [ cardin3DPlane |-> <<>>,
              halfMaxHeight |-> 0,
              maxV |-> <<-MinMaxStart, -MinMaxStart, -MinMaxStart>>,
              minV |-> <<MinMaxStart, MinMaxStart, MinMaxStart>> ]),
        LAMBDA loop :
    LET halfLength == AbsI(loop.maxV[2] - loop.minV[2]) \div 2
        halfWidth == AbsI(loop.maxV[1] - loop.minV[1]) \div 2
        delta == halfWidth - AbsI(loop.cardin3DPlane[6][1])
    IN  [ centerWorld |-> centerWorld,
          normal |-> normal,
          cardin3DPlane |-> loop.cardin3DPlane,
          \* the sample whose projection delta reads
          deltaSample |-> cardinals[6],
          max |-> <<halfLength, halfWidth, loop.halfMaxHeight>>,
          min |-> <<-halfLength, -halfWidth, -loop.halfMaxHeight>>,
          translate |-> <<0, delta, -loop.halfMaxHeight>> ]))))))

-----------------------------------------------------------------------------
(* The heap of THREE.Vector3 objects: a reference is an index of the heap *)

Undefined == "undefined"
\* an argument or a property that holds no vector
NoVector == <<>>

NewRef(h) == Len(h) + 1
New(h, v) == Append(h, v)

-----------------------------------------------------------------------------
(* Object3D methods used by OBB *)

\* Object3D.DefaultUp, which the globe sets to +Z: the local x and y axes of an
\* OBB are the east and north tangent directions at the centre of its extent
DefaultUp == <<0, 0, UnitScale>>

\* Matrix4.lookAt(eye, target, up): the columns x, y, z of the rotation, for an
\* eye - target that is not parallel to up
Matrix4LookAt(eye, target, up) ==
    Var(VNormalize(VSub(eye, target)), LAMBDA z :
    Var(VNormalize(VCross(up, z)), LAMBDA x :
        <<x, VDivide(VCross(z, x), UnitScale), z>>))

\* Object3D.lookAt(vector) of an object that is no camera
LookAt(h, o, vector) ==
    [o EXCEPT !.quaternion = Matrix4LookAt(vector, h[o.position], DefaultUp)]

\* Object3D.translateOnAxis(axis, distance): moves the position vector in place
TranslateOnAxis(h, o, axis, distance) ==
    [h EXCEPT ![o.position] =
        VAdd(@, VDivide(VScale(ApplyQuaternion(axis, o.quaternion), distance),
                        UnitScale))]

\* Object3D.updateMatrixWorld(true) of an object with no parent and scale 1:
\* matrixWorld is composed from position and quaternion
UpdateMatrixWorld(h, o) ==
    [o EXCEPT !.matrixWorld =
        [position |-> h[o.position], quaternion |-> o.quaternion]]

\* Vector3.applyMatrix4(m)
ApplyMatrix4(p, m) == VAdd(ApplyQuaternion(p, m.quaternion), m.position)

-----------------------------------------------------------------------------
(* OBB *)

\* OBB.prototype._points
Points(h, o) ==
    LET min == h[o.box3D.min]
        max == h[o.box3D.max]
    IN  << <<max[1], max[2], max[3]>>,
           <<min[1], max[2], max[3]>>,
           <<min[1], min[2], max[3]>>,
           <<max[1], min[2], max[3]>>,
           <<max[1], max[2], min[3]>>,
           <<min[1], max[2], min[3]>>,
           <<min[1], min[2], min[3]>>,
           <<max[1], min[2], min[3]>> >>

\* OBB.prototype._cPointsWorld
CPointsWorld(o, points) ==
    << ApplyMatrix4(points[1], o.matrixWorld), ApplyMatrix4(points[2], o.matrixWorld),
       ApplyMatrix4(points[3], o.matrixWorld), ApplyMatrix4(points[4], o.matrixWorld),
       ApplyMatrix4(points[5], o.matrixWorld), ApplyMatrix4(points[6], o.matrixWorld),
       ApplyMatrix4(points[7], o.matrixWorld), ApplyMatrix4(points[8], o.matrixWorld) >>

\* OBB.prototype.update; h and o are values
Update(h, o) ==
    Var(UpdateMatrixWorld(h, o), LAMBDA o1 :
    Var(Points(h, o1), LAMBDA points :
        [o1 EXCEPT !.pointsWorld = CPointsWorld(o1, points)]))

\* Box3.clone(): a new box with new min and max vectors of the same values
Box3CloneShared(h, box) == [heap |-> h, box |-> box]
Box3Clone(h, box) ==
    [ heap |-> New(New(h, h[box.min]), h[box.max]),
      box |-> [min |-> NewRef(h), max |-> NewRef(h) + 1] ]

\* the three translations of the constructor (lines 15-19)
Translate(h, o, translate) ==
    Var(TranslateOnAxis(h, o, QIdentity[1], translate[1]), LAMBDA hx :
    Var(TranslateOnAxis(hx, o, QIdentity[2], translate[2]), LAMBDA hy :
        TranslateOnAxis(hy, o, QIdentity[3], translate[3])))

\* function OBB(min, max, lookAt, translate): min and max are references,
\* lookAt and translate are vectors or NoVector; h is a value
OBBConstructor(h, min, max, lookAt, translate) ==
    \* this.box3D = new Box3(min.clone(), max.clone())
    Var(New(New(h, h[min]), h[max]), LAMBDA h1 :
    \* this.natBox = this.box3D.clone()
    Var(Box3Clone(h1, [min |-> NewRef(h), max |-> NewRef(h) + 1]), LAMBDA nat :
    \* Object3D.call(this)
    Var(New(nat.heap, Zero3), LAMBDA h2 :
    Var([ box3D |-> [min |-> NewRef(h), max |-> NewRef(h) + 1],
          natBox |-> nat.box,
          position |-> NewRef(nat.heap),
          quaternion |-> QIdentity,
          matrixWorld |-> [position |-> Zero3, quaternion |-> QIdentity],
          oPosition |-> 0,
          pointsWorld |-> <<>>,
          z |-> [min |-> 0, max |-> 0],
          centerWorld |-> NoVector ], LAMBDA o0 :
    Var(IF lookAt # NoVector THEN LookAt(h2, o0, lookAt) ELSE o0, LAMBDA o1 :
    Var(IF translate # NoVector THEN Translate(h2, o1, translate) ELSE h2, LAMBDA h3 :
    \* this.oPosition = new Vector3(); this.update()
    Var(New(h3, Zero3), LAMBDA h4 :
    Var(Update(h4, [o1 EXCEPT !.oPosition = NewRef(h3)]), LAMBDA o2 :
    \* this.oPosition = this.position.clone(); this.z = { min: 0, max: 0 }
        [ heap |-> New(h4, h4[o2.position]),
          obb |-> [o2 EXCEPT !.oPosition = NewRef(h4),
                             !.z = [min |-> 0, max |-> 0]] ]))))))))

\* addHeight, line 59
NHalfSizeSigned(h, o) == (h[o.box3D.min][3] - h[o.box3D.max][3]) \div 2
NHalfSize(h, o) == AbsI(h[o.box3D.min][3] - h[o.box3D.max][3]) \div 2

\* addHeight, line 64: this.position.copy(this.oPosition)
ResetPositionSkipped(h, o) == h
ResetPosition(h, o) == [h EXCEPT ![o.position] = h[o.oPosition]]

\* OBB.prototype.addHeight; h and o are values
AddHeightNotCentred(h, o, minz, maxz) ==
    Var(AbsI(h[o.natBox.min][3] - h[o.natBox.max][3]), LAMBDA depth :
    Var([h EXCEPT ![o.box3D.min][3] = h[o.natBox.min][3] + minz], LAMBDA ha :
    Var([ha EXCEPT ![o.box3D.max][3] = ha[o.natBox.max][3] + maxz], LAMBDA hb :
    Var(NHalfSize(hb, o), LAMBDA nHalfSize :
    Var(hb[o.box3D.min][3] + nHalfSize, LAMBDA translaZ :
    Var(ResetPosition(hb, o), LAMBDA he :
    Var(TranslateOnAxis(he, o, QIdentity[3], translaZ), LAMBDA hf :
        [ heap |-> hf,
          obb |-> Update(hf, o),
          result |-> <<nHalfSize - depth \div 2, translaZ>> ])))))))
AddHeight(h, o, minz, maxz) ==
    Var(AbsI(h[o.natBox.min][3] - h[o.natBox.max][3]), LAMBDA depth :
    Var([h EXCEPT ![o.box3D.min][3] = h[o.natBox.min][3] + minz], LAMBDA ha :
    Var([ha EXCEPT ![o.box3D.max][3] = ha[o.natBox.max][3] + maxz], LAMBDA hb :
    Var(NHalfSize(hb, o), LAMBDA nHalfSize :
    Var(hb[o.box3D.min][3] + nHalfSize, LAMBDA translaZ :
    Var([hb EXCEPT ![o.box3D.min][3] = -nHalfSize], LAMBDA hc :
    Var([hc EXCEPT ![o.box3D.max][3] = nHalfSize], LAMBDA hd :
    Var(ResetPosition(hd, o), LAMBDA he :
    Var(TranslateOnAxis(he, o, QIdentity[3], translaZ), LAMBDA hf :
        [ heap |-> hf,
          obb |-> Update(hf, o),
          result |-> <<nHalfSize - depth \div 2, translaZ>> ])))))))))

\* OBB.prototype.updateZ; h and o are values
UpdateZMinTwice(h, o, min, max) ==
    Var([o EXCEPT !.z = [min |-> min, max |-> min]], LAMBDA this :
        AddHeight(h, this, min, max))
UpdateZ(h, o, min, max) ==
    Var([o EXCEPT !.z = [min |-> min, max |-> max]], LAMBDA this :
        AddHeight(h, this, min, max))

\* clone, lines 34-35: cOBB.position.copy(this.position) and
\* cOBB.quaternion.copy(this.quaternion) copy the values into the clone's own objects
CopyTransformShared(h, cOBB, this) ==
    [ heap |-> h,
      obb |-> [cOBB EXCEPT !.position = this.position,
                           !.quaternion = this.quaternion] ]
CopyTransform(h, cOBB, this) ==
    [ heap |-> [h EXCEPT ![cOBB.position] = h[this.position]],
      obb |-> [cOBB EXCEPT !.quaternion = this.quaternion] ]

\* OBB.prototype.clone: the heap, the receiver and the OBB returned; h and this
\* are values
Clone(h, this) ==
    Var(OBBConstructor(h, this.natBox.min, this.natBox.max, NoVector, NoVector),
        LAMBDA c :
    Var(CopyTransform(c.heap, c.obb, this), LAMBDA t :
        \* this.oPosition = this.oPosition.clone()
        [ heap |-> New(t.heap, t.heap[this.oPosition]),
          this |-> [this EXCEPT !.oPosition = NewRef(t.heap)],
          cOBB |-> t.obb ]))

\* extentToOBB, line 111
CrsRejectedNever(extent) == FALSE
CrsRejectedOrDegenerate(extent) ==
    \/ extent.crs # "EPSG:4326"
    \/ extent.west = extent.east
    \/ extent.south = extent.north
CrsRejected(extent) == extent.crs # "EPSG:4326"

\* extentToOBB, line 182
HasHeightBoth(minHeight, maxHeight) == minHeight # 0 /\ maxHeight # 0
HasHeight(minHeight, maxHeight) == minHeight # 0 \/ maxHeight # 0

\* OBB.extentToOBB: the error thrown, or the heap and the OBB returned; h is a
\* value
ExtentToOBB(h, extent, minHeight, maxHeight) ==
    IF CrsRejected(extent)
    THEN [ thrown |-> "The extent crs is not a Geographic Coordinates (EPSG:4326)",
           heap |-> h, obb |-> Undefined ]
    ELSE Var(ExtentGeometry(extent), LAMBDA g :
         \* var max = new Vector3(...); var min = new Vector3(...)
         Var(New(New(h, g.max), g.min), LAMBDA h1 :
         Var(OBBConstructor(h1, NewRef(h) + 1, NewRef(h), g.normal, g.translate),
             LAMBDA c :
         Var(IF HasHeight(minHeight, maxHeight)
             THEN AddHeight(c.heap, c.obb, minHeight, maxHeight)
             ELSE [heap |-> c.heap, obb |-> c.obb], LAMBDA a :
             [ thrown |-> Undefined,
               heap |-> a.heap,
               obb |-> [a.obb EXCEPT !.centerWorld = g.centerWorld] ]))))

-----------------------------------------------------------------------------
(* The program state *)

\* the number of OBBs a run creates
MaxOBB == 2
Slots == 1..MaxOBB

\* the extents of a run: two geographic ones, centred at longitude 0 in the
\* southern hemisphere and on the equator at the half turn, and one in a
\* projected CRS
Extents ==
    { [crs |-> "EPSG:4326", west |-> -1, east |-> 1, south |-> -2, north |-> 0],
      [crs |-> "EPSG:4326", west |-> HalfTurn - 2, east |-> HalfTurn + 2,
       south |-> -1, north |-> 1],
      [crs |-> "EPSG:3946", west |-> -1, east |-> 1, south |-> -1, north |-> 1] }

\* the (minHeight, maxHeight) arguments of a run: none, a range above the
\* surface, and a minimum above the maximum by more than any natural thickness
HeightPairs == { <<0, 0>>, <<0, Radius \div 50>>, <<Radius, 0>> }

VARIABLES
    heap,     \* the Vector3 objects, by reference
    obbs,     \* the OBBs created so far, in the order of their creation
    thrown,   \* the error thrown by the last call, or Undefined
    hist,     \* for each OBB, how it came to be and the last updateZ call on it
              \* (history: read by no operation)
    controls, \* the PlanarControls instance, its module-level variables and its
              \* camera, or Undefined where none is constructed
    log,      \* what the user and the application did to the controls
              \* (history: read by no operation)
    layer,    \* the layer object handed to the Vector_Provider, or Undefined
    returned  \* the last call on the Vector_Provider and what it returned
              \* (history: read by no operation)

vars == <<heap, obbs, thrown, hist, controls, log, layer, returned>>

Live == 1..Len(obbs)

\* the Vector3 references an OBB holds
RefsOf(o) ==
    <<o.box3D.min, o.box3D.max, o.natBox.min, o.natBox.max, o.position, o.oPosition>>

RECURSIVE AllRefs(_, _)
AllRefs(os, s) ==
    IF s > Len(os) THEN <<>>
    ELSE RefsOf(os[s]) \o AllRefs(os, s + 1)

RECURSIVE Distinct(_, _)
Distinct(refs, seen) ==
    IF refs = <<>> THEN seen
    ELSE Var(IF \E i \in 1..Len(seen) : seen[i] = Head(refs)
             THEN seen ELSE Append(seen, Head(refs)),
             LAMBDA next : Distinct(Tail(refs), next))

\* Vectors no OBB references are gone, and the objects left are numbered in the
\* order the OBBs reference them: object identity is kept, addresses are not;
\* h and os are values
Collect(h, os) ==
    Var(AllRefs(os, 1), LAMBDA refs :
    Var(Distinct(refs, <<>>), LAMBDA kept :
    LET at(r) == CHOOSE i \in 1..Len(kept) : kept[i] = r
        move(o) == [o EXCEPT !.box3D = [min |-> at(o.box3D.min), max |-> at(o.box3D.max)],
                             !.natBox = [min |-> at(o.natBox.min), max |-> at(o.natBox.max)],
                             !.position = at(o.position),
                             !.oPosition = at(o.oPosition)]
    IN  [ heap |-> [i \in 1..Len(kept) |-> h[kept[i]]],
          obbs |-> [s \in 1..Len(os) |-> move(os[s])] ]))

Box(h, box) == [min |-> h[box.min], max |-> h[box.max]]

\* no updateZ call yet
NoCall == [op |-> "new", min |-> 0, max |-> 0]

Init ==
    /\ heap = <<>>
    /\ obbs = <<>>
    /\ thrown = Undefined
    /\ hist = <<>>
    /\ controls = Undefined
    /\ log = Undefined
    /\ layer = Undefined
    /\ returned = Undefined

\* obb = OBB.extentToOBB(extent, minHeight, maxHeight)
ExtentToOBBCall(extent, minHeight, maxHeight) ==
    /\ Len(obbs) >= MaxOBB => CrsRejected(extent)
    /\ UNCHANGED <<controls, log, layer, returned>>
    /\ \E r \in {ExtentToOBB(heap, extent, minHeight, maxHeight)} :
        IF r.thrown # Undefined
        THEN /\ thrown' = r.thrown
             /\ UNCHANGED <<heap, obbs, hist>>
        ELSE /\ \E os \in {Append(obbs, r.obb)} :
                \E c \in {Collect(r.heap, os)} :
                    /\ heap' = c.heap
                    /\ obbs' = c.obbs
                    /\ hist' = Append(hist,
                                   [ kind |-> "extentToOBB",
                                     extent |-> extent,
                                     minHeight |-> minHeight,
                                     maxHeight |-> maxHeight,
                                     from |-> 0,
                                     natBox |-> Var(ExtentGeometry(extent), LAMBDA g :
                                                    [min |-> g.min, max |-> g.max]),
                                     last |-> NoCall ])
             /\ thrown' = Undefined

\* obbs[s].updateZ(min, max), which creates no vector that outlives the call
UpdateZCall(s, min, max) ==
    /\ s \in Live
    /\ \E r \in {UpdateZ(heap, obbs[s], min, max)} :
           /\ heap' = r.heap
           /\ obbs' = [obbs EXCEPT ![s] = r.obb]
    /\ hist' = [hist EXCEPT ![s].last = [op |-> "updateZ", min |-> min, max |-> max]]
    /\ thrown' = Undefined
    /\ UNCHANGED <<controls, log, layer, returned>>

\* obbs[s].update()
UpdateCall(s) ==
    /\ s \in Live
    /\ obbs' = [obbs EXCEPT ![s] = Update(heap, obbs[s])]
    /\ thrown' = Undefined
    /\ UNCHANGED <<heap, hist, controls, log, layer, returned>>

\* cOBB = obbs[s].clone()
CloneCall(s) ==
    /\ s \in Live
    /\ Len(obbs) < MaxOBB
    /\ \E r \in {Clone(heap, obbs[s])} :
       \E os \in {Append([obbs EXCEPT ![s] = r.this], r.cOBB)} :
       \E c \in {Collect(r.heap, os)} :
           /\ heap' = c.heap
           /\ obbs' = c.obbs
           /\ hist' = Append(hist,
                          [ kind |-> "clone",
                            extent |-> hist[s].extent,
                            minHeight |-> 0,
                            maxHeight |-> 0,
                            from |-> s,
                            natBox |-> Box(heap, obbs[s].natBox),
                            last |-> NoCall ])
    /\ thrown' = Undefined
    /\ UNCHANGED <<controls, log, layer, returned>>

Next ==
    \/ \E extent \in Extents, hp \in HeightPairs : ExtentToOBBCall(extent, hp[1], hp[2])
    \/ \E s \in Slots, hp \in HeightPairs : UpdateZCall(s, hp[1], hp[2])
    \/ \E s \in Slots : UpdateCall(s)
    \/ \E s \in Slots : CloneCall(s)

Spec == Init /\ [][Next]_vars

-----------------------------------------------------------------------------
(* Runs that build one OBB from a survey of extents, degenerate ones included *)

\* extents of zero width, of zero height on and off the equator, of both, and
\* extents of positive area north of the equator and across it
SurveyExtents ==
    { [crs |-> "EPSG:4326", west |-> 0, east |-> 0, south |-> -2, north |-> 0],
      [crs |-> "EPSG:4326", west |-> -1, east |-> 1, south |-> 0, north |-> 0],
      [crs |-> "EPSG:4326", west |-> -1, east |-> 1, south |-> -1, north |-> -1],
      [crs |-> "EPSG:4326", west |-> HalfTurn, east |-> HalfTurn, south |-> 1, north |-> 1],
      [crs |-> "EPSG:4326", west |-> -1, east |-> 1, south |-> 0, north |-> 2],
      [crs |-> "EPSG:4326", west |-> -2, east |-> 2, south |-> -1, north |-> 1],
      [crs |-> "EPSG:3946", west |-> 0, east |-> 0, south |-> -1, north |-> 1] }

\* obb = OBB.extentToOBB(extent, minHeight, maxHeight), the first OBB of the run
SurveyCall(extent, minHeight, maxHeight) ==
    /\ Len(obbs) = 0
    /\ ExtentToOBBCall(extent, minHeight, maxHeight)

SurveyNext ==
    \/ \E extent \in SurveyExtents, hp \in HeightPairs : SurveyCall(extent, hp[1], hp[2])
    \/ \E s \in Slots, hp \in HeightPairs : UpdateZCall(s, hp[1], hp[2])
    \/ \E s \in Slots : UpdateCall(s)
    \/ \E s \in Slots : CloneCall(s)

SurveySpec == Init /\ [][SurveyNext]_vars

-----------------------------------------------------------------------------
(* What the claims read *)

LocalBox(s) == Box(heap, obbs[s].box3D)
NaturalBox(s) == Box(heap, obbs[s].natBox)
Position(s) == heap[obbs[s].position]
OriginPosition(s) == heap[obbs[s].oPosition]
Orientation(s) == obbs[s].quaternion
WorldCorners(s) == obbs[s].pointsWorld
HeightRange(s) == obbs[s].z

Built(s) == hist[s].kind = "extentToOBB"
Cloned(s) == hist[s].kind = "clone"
Extruded(s) == hist[s].last.op = "updateZ"
\* the receiver of the last updateZ call was built with heights (a, b) # (0, 0)
BuiltWithHeight(s) == Built(s) /\ (hist[s].minHeight # 0 \/ hist[s].maxHeight # 0)
BuiltFlat(s) == Built(s) /\ hist[s].minHeight = 0 /\ hist[s].maxHeight = 0

\* localBox, position, worldCorners of s and t are equal
SameShape(s, t) ==
    /\ LocalBox(s) = LocalBox(t)
    /\ Position(s) = Position(t)
    /\ WorldCorners(s) = WorldCorners(t)

-----------------------------------------------------------------------------
(* C1 - C10 *)

\* C1: extrusion is not cumulative.  Two OBBs built from the same extent whose
\* last extrusion was updateZ(c, d) have the same localBox, position,
\* worldCorners and heightRange, whatever heights they were built with and
\* whatever extrusions came before: in particular an OBB extruded (a, b) and then
\* (c, d) equals a fresh one on which only (c, d) was applied.
C1_NonCumulative ==
    \A s \in Live : \A t \in Live :
        ( /\ Built(s) /\ Built(t)
          /\ hist[s].extent = hist[t].extent
          /\ Extruded(s) /\ Extruded(t)
          /\ hist[s].last = hist[t].last )
        => SameShape(s, t) /\ HeightRange(s) = HeightRange(t)

\* an OBB built with heights (a, b), hence extruded by them, and then extruded by
\* other heights (c, d), next to one built flat from the same extent and
\* extruded by (c, d)
C1_Witness ==
    \E s \in Live : \E t \in Live :
        /\ BuiltWithHeight(s) /\ BuiltFlat(t)
        /\ hist[s].extent = hist[t].extent
        /\ Extruded(s) /\ Extruded(t)
        /\ hist[s].last = hist[t].last
        /\ <<hist[s].last.min, hist[s].last.max>> # <<hist[s].minHeight, hist[s].maxHeight>>
        /\ <<hist[s].last.min, hist[s].last.max>> # <<0, 0>>

\* C2: extrusion is idempotent.  In every state whose last extrusion of an OBB
\* (built or cloned) was updateZ(a, b), calling updateZ(a, b) again leaves its
\* localBox, position and worldCorners as they are.
C2_Idempotent ==
    \A s \in Live :
        Extruded(s) =>
            Var(UpdateZ(heap, obbs[s], hist[s].last.min, hist[s].last.max), LAMBDA r :
                /\ Box(r.heap, r.obb.box3D) = LocalBox(s)
                /\ r.heap[r.obb.position] = Position(s)
                /\ r.obb.pointsWorld = WorldCorners(s))

\* an OBB extruded by heights that translate it
C2_Witness ==
    \E s \in Live :
        /\ Extruded(s)
        /\ Position(s) # OriginPosition(s)

\* C3: the corner cache is never stale.  Every OBB has 8 world corners, and
\* corner i is the position plus the orientation applied to local corner i of the
\* current localBox.
C3_CornerCacheConsistent ==
    \A s \in Live :
        /\ Len(WorldCorners(s)) = 8
        /\ \A i \in 1..8 :
               WorldCorners(s)[i] =
                   VAdd(Position(s),
                        ApplyQuaternion(Points(heap, obbs[s])[i], Orientation(s)))

\* C4: clone independence.  An updateZ call on a clone changes no localBox,
\* position, heightRange or worldCorners of its source, and one on the source
\* changes none of the clone.
C4_CloneIndependence ==
    [][ \A t \in Live :
            \/ \A s \in Live \ {t} :
                   (hist[s].from = t \/ hist[t].from = s) =>
                       /\ LocalBox(s)' = LocalBox(s)
                       /\ Position(s)' = Position(s)
                       /\ HeightRange(s)' = HeightRange(s)
                       /\ WorldCorners(s)' = WorldCorners(s)
            \/ \A hp \in HeightPairs : ~UpdateZCall(t, hp[1], hp[2]) ]_vars

\* a clone that was extruded and moved by it, next to its source
C4_Witness ==
    \E c \in Live :
        /\ Cloned(c)
        /\ Extruded(c)
        /\ HeightRange(c) # [min |-> 0, max |-> 0]
        /\ HeightRange(hist[c].from) # HeightRange(c)

\* C5: a clone has its own originPosition, equal in value to its source's and a
\* different object.
C5_CloneCopiesOrigin ==
    \A c \in Live :
        Cloned(c) =>
            /\ OriginPosition(c) = OriginPosition(hist[c].from)
            /\ obbs[c].oPosition # obbs[hist[c].from].oPosition

\* C6: naturalBox is immutable.  The naturalBox of every OBB equals the box the
\* OBB was constructed with: the one computed from the extent for a built OBB,
\* the source's naturalBox for a clone.
C6_NaturalBoxImmutable ==
    \A s \in Live : NaturalBox(s) = hist[s].natBox

\* an OBB with a clone, both extruded, so that localBox has left naturalBox
C6_Witness ==
    \E c \in Live :
        /\ Cloned(c) /\ Extruded(c) /\ Extruded(hist[c].from)
        /\ LocalBox(c) # NaturalBox(c)
        /\ LocalBox(hist[c].from) # NaturalBox(hist[c].from)

\* C7: localBox.min <= localBox.max on x, y and z in every state.
C7_MinBelowMax ==
    \A s \in Live : \A i \in 1..3 : LocalBox(s).min[i] <= LocalBox(s).max[i]

\* an OBB extruded by (a, b) with naturalBox.min.z + a > naturalBox.max.z + b
C7_Witness ==
    \E s \in Live :
        /\ Extruded(s)
        /\ NaturalBox(s).min[3] + hist[s].last.min > NaturalBox(s).max[3] + hist[s].last.max

\* C8: extentToOBB(extent, a, b) with a # 0 or b # 0 returns an OBB with the
\* localBox, position and worldCorners of extentToOBB(extent) followed by
\* updateZ(a, b); with a = b = 0 the OBB returned has localBox = naturalBox.
C8_BuildExtrudes ==
    /\ \A s \in Live : \A t \in Live :
           ( /\ BuiltWithHeight(s) /\ ~Extruded(s)
             /\ BuiltFlat(t) /\ Extruded(t)
             /\ hist[t].extent = hist[s].extent
             /\ hist[t].last.min = hist[s].minHeight
             /\ hist[t].last.max = hist[s].maxHeight )
           => SameShape(s, t)
    /\ \A s \in Live : (BuiltFlat(s) /\ ~Extruded(s)) => LocalBox(s) = NaturalBox(s)

\* an OBB as built with heights (a, b), next to one built flat from the same
\* extent and then extruded by (a, b)
C8_Witness ==
    \E s \in Live : \E t \in Live :
        /\ BuiltWithHeight(s) /\ ~Extruded(s)
        /\ BuiltFlat(t) /\ Extruded(t)
        /\ hist[t].extent = hist[s].extent
        /\ hist[t].last.min = hist[s].minHeight
        /\ hist[t].last.max = hist[s].maxHeight
        /\ LocalBox(s) # NaturalBox(s)

\* C9: heightRange holds the bounds of the last extrusion: (0, 0) for an OBB
\* never extruded, (a, b) after updateZ(a, b), (minHeight, maxHeight) on the OBB
\* returned by extentToOBB(extent, minHeight, maxHeight).
C9_HeightRangeIsLastExtrusion ==
    \A s \in Live :
        /\ Extruded(s) =>
               HeightRange(s) = [min |-> hist[s].last.min, max |-> hist[s].last.max]
        /\ (Built(s) /\ ~Extruded(s)) =>
               HeightRange(s) = [min |-> hist[s].minHeight, max |-> hist[s].maxHeight]
        /\ (Cloned(s) /\ ~Extruded(s)) => HeightRange(s) = [min |-> 0, max |-> 0]

\* C10: extentToOBB of an extent whose CRS is not EPSG:4326 throws, creates no
\* OBB and changes no state.
C10_InvalidCrsThrows ==
    [][ \A extent \in Extents : \A hp \in HeightPairs :
            (extent.crs # "EPSG:4326" /\ ExtentToOBBCall(extent, hp[1], hp[2])) =>
                /\ thrown' # Undefined
                /\ UNCHANGED <<heap, obbs, hist>> ]_vars

\* the error has been thrown while OBBs exist
C10_Witness == thrown # Undefined /\ Len(obbs) > 0

-----------------------------------------------------------------------------
(* C11 - C20 *)

NoHeight == [min |-> 0, max |-> 0]

\* C11: there is no path from Extruded back to Natural.  No step takes an OBB
\* whose heightRange differs from {0, 0} to a state where it is {0, 0}.
C11_NoPathBack ==
    [][ \A s \in Live : HeightRange(s) # NoHeight => HeightRange(s)' # NoHeight ]_vars

\* C11 as amended: the only step that takes an OBB whose heightRange differs
\* from {0, 0} to a state where it is {0, 0} is updateZ(0, 0) on that OBB, and
\* that step always does so, putting localBox back to naturalBox and position
\* back to originPosition.
C11_OnlyZeroExtrusionGoesBack ==
    [][ \A s \in Live :
            HeightRange(s) # NoHeight =>
                /\ HeightRange(s)' = NoHeight =>
                       /\ UpdateZCall(s, 0, 0)
                       /\ LocalBox(s)' = NaturalBox(s)'
                       /\ Position(s)' = OriginPosition(s)'
                /\ ( /\ hist'[s].last = [op |-> "updateZ", min |-> 0, max |-> 0]
                      /\ UpdateZCall(s, 0, 0) )
                   => HeightRange(s)' = NoHeight ]_vars

\* an OBB built flat, extruded, cloned while extruded (the clone, never extruded
\* itself, still has the position the extrusion gave the source) and then put
\* back by updateZ(0, 0)
C11_Witness ==
    \E s \in Live : \E c \in Live :
        /\ BuiltFlat(s)
        /\ hist[c].from = s
        /\ ~Extruded(c)
        /\ Position(c) # OriginPosition(s)
        /\ hist[s].last = [op |-> "updateZ", min |-> 0, max |-> 0]
        /\ HeightRange(s) = NoHeight
        /\ Position(s) = OriginPosition(s)

\* C12: symmetry.  In every state the naturalBox of every OBB has max equal to
\* the componentwise negation of min, and its localBox has max.z = -min.z,
\* whatever extrusions it went through.
C12_Symmetry ==
    \A s \in Live :
        /\ NaturalBox(s).max = VScale(NaturalBox(s).min, -1)
        /\ LocalBox(s).max[3] = -LocalBox(s).min[3]

\* an OBB extruded by a range that is not symmetric about 0, so that its
\* localBox has left its naturalBox
C12_Witness ==
    \E s \in Live :
        /\ Extruded(s)
        /\ hist[s].last.min # -hist[s].last.max
        /\ LocalBox(s) # NaturalBox(s)
        /\ Position(s) # OriginPosition(s)

\* C13: c = s.clone(), for a source s in any state, is a new OBB with
\* c.localBox = s.naturalBox, c.naturalBox = s.naturalBox, c.position =
\* s.position and c.orientation = s.orientation in value, and no Vector3 object
\* of c is an object of another OBB.
C13_CloneResult ==
    [][ \A s \in Live :
            ( /\ Len(obbs') = Len(obbs) + 1
              /\ hist'[Len(obbs')].kind = "clone"
              /\ hist'[Len(obbs')].from = s )
            => Var(Len(obbs'), LAMBDA c :
                   /\ LocalBox(c)' = NaturalBox(s)
                   /\ NaturalBox(c)' = NaturalBox(s)
                   /\ NaturalBox(s)' = NaturalBox(s)
                   /\ Position(c)' = Position(s)
                   /\ Position(s)' = Position(s)
                   /\ Orientation(c)' = Orientation(s)
                   /\ Orientation(s)' = Orientation(s)
                   /\ \A t \in 1..Len(obbs') : \A i \in 1..6 : \A j \in 1..6 :
                          t # c => RefsOf(obbs'[c])[i] # RefsOf(obbs'[t])[j]) ]_vars

\* a clone taken from a source that was extruded: its localBox is not the
\* localBox of the source and its position is not the source's originPosition
C13_Witness ==
    \E c \in Live :
        /\ Cloned(c) /\ ~Extruded(c)
        /\ Extruded(hist[c].from)
        /\ LocalBox(c) # LocalBox(hist[c].from)
        /\ Position(c) = Position(hist[c].from)
        /\ Position(c) # OriginPosition(hist[c].from)

\* sample i of the 9 sample points of the extent OBB s was built from, relative
\* to the centre of the extent and to the origin of the box as constructed
SampleOffset(s, i) ==
    VSub(VSub(ToCartesian(Cardinals(hist[s].extent)[i]), obbs[s].centerWorld),
         OriginPosition(s))

\* C14: containment.  Each of the 9 sample points of the extent lies within the
\* box as constructed (naturalBox at originPosition) along each of the three
\* local axes of the OBB built from it.
C14_SamplesContained ==
    \A s \in Live :
        Built(s) =>
            \A i \in 1..9 : \A k \in 1..3 :
                Var(VDot(Orientation(s)[k], SampleOffset(s, i)), LAMBDA l :
                    /\ NaturalBox(s).min[k] * UnitScale <= l
                    /\ l <= NaturalBox(s).max[k] * UnitScale)

ZeroWidth(extent) == extent.west = extent.east
ZeroHeight(extent) == extent.south = extent.north
OnEquator(extent) == extent.south = 0

\* C15: a degenerate extent with a valid CRS is never rejected.  extentToOBB of
\* an EPSG:4326 extent of zero width or zero height throws nothing and returns
\* an OBB whose naturalBox has zero thickness on the x axis for a zero width and
\* on the y axis for a zero height.
C15_DegenerateIsFlat ==
    [][ \A extent \in SurveyExtents : \A hp \in HeightPairs :
            ( /\ Len(obbs) = 0
              /\ extent.crs = "EPSG:4326"
              /\ ZeroWidth(extent) \/ ZeroHeight(extent)
              /\ SurveyCall(extent, hp[1], hp[2]) )
            => /\ thrown' = Undefined
               /\ Len(obbs') = 1
               /\ ZeroWidth(extent) =>
                      NaturalBox(1)'.min[1] = 0 /\ NaturalBox(1)'.max[1] = 0
               /\ ZeroHeight(extent) =>
                      NaturalBox(1)'.min[2] = 0 /\ NaturalBox(1)'.max[2] = 0 ]_vars

\* C15 as amended: extentToOBB of an EPSG:4326 extent of zero width or zero
\* height throws nothing and returns an OBB.  For a zero width its naturalBox
\* has zero thickness on the x axis.  For a zero height its naturalBox has zero
\* thickness on the y axis if the extent lies on the equator or has zero width
\* too, and a positive one otherwise: off the equator the ends of an arc of a
\* parallel are not in line with its middle in the tangent plane.
C15_DegenerateIsBuilt ==
    [][ \A extent \in SurveyExtents : \A hp \in HeightPairs :
            ( /\ Len(obbs) = 0
              /\ extent.crs = "EPSG:4326"
              /\ ZeroWidth(extent) \/ ZeroHeight(extent)
              /\ SurveyCall(extent, hp[1], hp[2]) )
            => /\ thrown' = Undefined
               /\ Len(obbs') = 1
               /\ NaturalBox(1)'.max = VScale(NaturalBox(1)'.min, -1)
               /\ ZeroWidth(extent) => NaturalBox(1)'.max[1] = 0
               /\ ZeroHeight(extent) =>
                      ( NaturalBox(1)'.max[2] = 0
                            <=> (OnEquator(extent) \/ ZeroWidth(extent)) )
               /\ NaturalBox(1)'.max[2] >= 0 ]_vars

\* an OBB built from an extent of zero height off the equator: its naturalBox
\* has no thickness to spare on x and a positive one on y
C15_Witness ==
    \E s \in Live :
        /\ Built(s)
        /\ ZeroHeight(hist[s].extent) /\ ~ZeroWidth(hist[s].extent)
        /\ ~OnEquator(hist[s].extent)
        /\ NaturalBox(s).max[2] > 0
        /\ thrown = Undefined

\* all of OBB s, its Vector3 objects by value
View(s) ==
    [ localBox |-> LocalBox(s),
      naturalBox |-> NaturalBox(s),
      position |-> Position(s),
      originPosition |-> OriginPosition(s),
      orientation |-> Orientation(s),
      matrixWorld |-> obbs[s].matrixWorld,
      worldCorners |-> WorldCorners(s),
      heightRange |-> HeightRange(s),
      centerWorld |-> obbs[s].centerWorld ]

\* C16: no state is shared across OBBs.  A step changes an OBB only if it is an
\* updateZ, update or clone call on that very OBB: the operations on the other
\* OBBs, its source and its clones included, leave all of it as it is, so that
\* each OBB ends any interleaving as it ends its own calls alone.  (The log of
\* the last updateZ call on s is written by UpdateZCall(s, _, _) alone: a step
\* that changes it is an updateZ call on s.)
C16_NoSharedState ==
    [][ \A s \in Live :
            \/ View(s)' = View(s)
            \/ hist'[s].last # hist[s].last
            \/ /\ hist'[s].last.op = "updateZ"
               /\ UpdateZCall(s, hist'[s].last.min, hist'[s].last.max)
            \/ UpdateCall(s)
            \/ CloneCall(s) ]_vars

\* a source and its clone after each was extruded by a range of its own
C16_Witness ==
    \E s \in Live : \E c \in Live :
        /\ hist[c].from = s
        /\ Extruded(s) /\ Extruded(c)
        /\ hist[s].last # hist[c].last
        /\ Position(s) # Position(c)
        /\ LocalBox(s) # LocalBox(c)

-----------------------------------------------------------------------------
(* PlanarControls (PlanarControls.js): numbers, positions and rotations *)

(***************************************************************************)
(* Lengths of the controls are whole metres and times whole milliseconds:  *)
(* a quotient or a square root is rounded down to the unit.  The travel    *)
(* progress travelAlpha, the sum of the quotients dt / travelDuration, is  *)
(* kept as the sum of the dt over travelDuration, or as one of the two     *)
(* values a division by 0 makes of it.  A camera position or rotation on   *)
(* its way is the interpolation term itself: the smoothing exponent has no *)
(* rational values.  A rotation at rest is the direction the camera looks  *)
(* along, or the one quaternion the controls build (goToTopView).          *)
(***************************************************************************)

\* STATE
State == [NONE |-> -1, PAN |-> 0, ROTATE |-> 1, TRAVEL |-> 2]

keys ==
    [ CTRL |-> 17, R |-> 82, O |-> 79, F |-> 70, S |-> 83, P |-> 80, T |-> 84,
      M |-> 77, UP |-> 38, DOWN |-> 40, RIGHT |-> 39, LEFT |-> 37 ]

\* THREE.MOUSE
mouseButtons == [LEFTCLICK |-> 0, MIDDLECLICK |-> 1, RIGHTCLICK |-> 2]

\* extent.center().xyz() of the view's extent
cityCenter == Zero3

\* the options, at their defaults (times in milliseconds)
startPosition == VAdd(cityCenter, <<3000, 3000, 2000>>)
startLook == cityCenter
\* this.groundHeight (line 100)
groundHeight == cityCenter[3]
topViewAltitude == 13000
autoTravelTimeMin == 1500
autoTravelTimeMax == 4000
autoTravelTimeDist == 20000
smartZoomHeightMin == 100
smartZoomHeightMax == 500
zoomTravelTime == 200
zoomInFactor == [num |-> 1, den |-> 4]
zoomOutFactor == [num |-> 2, den |-> 5]

\* the distance at which smartZoom ends at smartZoomHeightMax (line 373)
SmartZoomFarDistance == 5000

\* the zenith angle of a rotation is kept between 0 and 82.5 degrees (lines
\* 102-105), in steps of 7.5 degrees
minZenithAngle == 0
maxZenithAngle == 11

\* the largest r with r * r <= n, for n between lo * lo and hi * hi
RECURSIVE SqrtBetween(_, _, _)
SqrtBetween(n, lo, hi) ==
    IF hi - lo <= 1 THEN lo
    ELSE Var((lo + hi) \div 2, LAMBDA mid :
             IF mid * mid <= n THEN SqrtBetween(n, mid, hi)
             ELSE SqrtBetween(n, lo, mid))

\* the largest root SqrtBetween is asked for, short of the 32-bit overflow
MaxRoot == 46340

\* Math.sqrt, in whole units
Sqrt(n) == SqrtBetween(n, 0, MaxRoot)

\* Vector3.length and Vector3.distanceTo, in whole metres
LengthMetres(a) == Sqrt(VDot(a, a))
DistanceToMetres(a, b) == LengthMetres(VSub(a, b))

\* THREE.Math.lerp(x, y, t) for t = num / den
Lerp(x, y, num, den) == x + ((y - x) * num) \div den

\* Vector3.lerpVectors(v1, v2, alpha) for alpha = num / den
LerpVectorsAt(v1, v2, num, den) ==
    <<Lerp(v1[1], v2[1], num, den), Lerp(v1[2], v2[2], num, den),
      Lerp(v1[3], v2[3], num, den)>>

\* a number that is a sum of quotients over travelDuration: num stands for
\* num / travelDuration, and for 0 where num = 0
Finite(num) == [kind |-> "finite", num |-> num]
Infinity == [kind |-> "Infinity", num |-> 0]
NaN == [kind |-> "NaN", num |-> 0]

\* dt / travelDuration
Quotient(dt, duration) ==
    IF duration # 0 THEN Finite(dt)
    ELSE IF dt = 0 THEN NaN ELSE Infinity

\* a, whatever b
PlusNothing(a, b) == a
\* a + b
Plus(a, b) ==
    IF a.kind = "NaN" \/ b.kind = "NaN" THEN NaN
    ELSE IF a.kind = "Infinity" \/ b.kind = "Infinity" THEN Infinity
    ELSE Finite(a.num + b.num)

\* a > 1
GreaterThanOne(a, duration) ==
    \/ a.kind = "Infinity"
    \/ a.kind = "finite" /\ a.num > duration

\* a camera position at rest
At(v) == [kind |-> "at", v |-> v]

\* position.lerpVectors(travelStartPos, travelEndPos, alpha), alpha being
\* travelAlpha or smooth(travelAlpha): v1 for an alpha of 0, which smooth
\* leaves at 0
LerpVectors(v1, v2, travelAlpha, useSmooth) ==
    IF travelAlpha = Finite(0) THEN At(v1)
    ELSE [kind |-> "lerpVectors", v1 |-> v1, v2 |-> v2, alpha |-> travelAlpha,
          smooth |-> useSmooth]

\* a / gcd of its components: a direction
Direction(a) ==
    Var(Gcd(Gcd(AbsI(a[1]), AbsI(a[2])), AbsI(a[3])), LAMBDA g :
        IF g = 0 THEN a ELSE VDivide(a, g))

\* the rotation Object3D.lookAt(target) gives a camera at eye
LookAtRotation(eye, target) == [kind |-> "lookAt", dir |-> Direction(VSub(target, eye))]

\* new Quaternion().setFromAxisAngle(axis, 0)
NoRotation == [kind |-> "identity", dir |-> Zero3]

\* Quaternion.slerp(qa, qb, camera.quaternion, alpha)
Slerp(qa, qb, travelAlpha, useSmooth) ==
    IF travelAlpha = Finite(0) THEN qa
    ELSE [kind |-> "slerp", qa |-> qa, qb |-> qb, alpha |-> travelAlpha,
          smooth |-> useSmooth]

\* 0.5 - 0.5 * qa.dot(qb) in thousandths, for two rotations that differ: the
\* model does not hold the components of a rotation, and the dot product of
\* two unit quaternions is anything from -1 to 1
AngularDifferences == {0, 500, 1000}

-----------------------------------------------------------------------------
(* PlanarControls: the instance and its methods; c is a value *)

\* the arguments of startTravel: travelTime is 'auto' or a duration,
\* targetOrientation is 'none', a quaternion or a Vector3, which may be the
\* very object passed as targetPos
Auto == [auto |-> TRUE, ms |-> 0]
Duration(ms) == [auto |-> FALSE, ms |-> ms]
None == [kind |-> "none", q |-> NoRotation, point |-> Zero3, same |-> FALSE]
Quaternion(q) == [kind |-> "quaternion", q |-> q, point |-> Zero3, same |-> FALSE]
Vector3(point, same) == [kind |-> "vector3", q |-> NoRotation, point |-> point, same |-> same]

\* Angles are whole steps of 7.5 degrees.  The cosine of 0 to 12 steps, the
\* right angle, in ten thousandths
CosineTable == <<10000, 9914, 9659, 9239, 8660, 7934, 7071, 6088, 5000, 3827, 2588, 1305, 0>>
RightAngle == Len(CosineTable) - 1

\* Math.cos and Math.sin of an angle of -24 to 24 steps, in ten thousandths
MathCos(angle) ==
    Var(AbsI(angle), LAMBDA a :
        IF a <= RightAngle THEN CosineTable[a + 1] ELSE -CosineTable[2 * RightAngle - a + 1])
MathSin(angle) == MathCos(RightAngle - angle)

\* Math.acos(num / den) for den > 0: the angle of 0 to 24 steps whose cosine
\* is the nearest to num / den, the smaller one of two that are as near
Acos(num, den) ==
    CHOOSE angle \in 0..(2 * RightAngle) :
        \A other \in 0..(2 * RightAngle) :
            \/ AbsI(MathCos(angle) * den - num * 10000) < AbsI(MathCos(other) * den - num * 10000)
            \/ /\ AbsI(MathCos(angle) * den - num * 10000) = AbsI(MathCos(other) * den - num * 10000)
               /\ angle <= other

\* option || value, for an option that is a number: one that is not given
\* counts as 0
Or(option, value) == IF option = 0 THEN value ELSE option

\* new PlanarControls(view, extent, options) and the module-level variables
\* as the module sets them (lines 23-57, 64-129)
PlanarControls(options) ==
    [ state |-> State.NONE,
      isCtrlDown |-> FALSE,
      listening |-> FALSE,        \* mousemove and mouseup are listened to
      cursor |-> "",              \* domElement.style.cursor
      position |-> At(startPosition),
      quaternion |-> LookAtRotation(startPosition, startLook),
      panStart |-> Zero3,
      panDelta |-> Zero3,
      centerPoint |-> Zero3,
      phi |-> 0,
      travelStarted |-> FALSE,
      travelEndPos |-> Zero3,
      travelStartPos |-> Zero3,
      travelStartRot |-> NoRotation,
      travelEndRot |-> NoRotation,
      travelAlpha |-> Finite(0),
      travelDuration |-> 0,
      travelUseRotation |-> FALSE,
      travelUseSmooth |-> FALSE,
      instantTravel |-> options.instantTravel,
      minZenithAngle |-> Or(options.minZenithAngle, minZenithAngle),
      maxZenithAngle |-> Or(options.maxZenithAngle, maxZenithAngle) ]

updateCursorType(c) ==
    [c EXCEPT !.cursor = IF c.state = State.NONE THEN "auto"
                         ELSE IF c.state = State.TRAVEL THEN "wait"
                         ELSE "move"]

\* endTravel without line 222
endTravelInPlace(c) ==
    updateCursorType(
        [c EXCEPT !.quaternion = IF c.travelUseRotation THEN c.travelEndRot ELSE @,
                  !.state = State.NONE])
\* endTravel; its update() finds the state NONE and does nothing
endTravel(c) ==
    updateCursorType(
        [c EXCEPT !.position = At(c.travelEndPos),
                  !.quaternion = IF c.travelUseRotation THEN c.travelEndRot ELSE @,
                  !.state = State.NONE])

handleTravel(c, dt) ==
    IF ~c.travelStarted
    THEN [c EXCEPT !.travelStarted = TRUE]
    ELSE Var(Plus(c.travelAlpha, Quotient(dt, c.travelDuration)), LAMBDA travelAlpha :
         Var([c EXCEPT !.travelAlpha = travelAlpha,
                       !.position = LerpVectors(c.travelStartPos, c.travelEndPos,
                                                travelAlpha, c.travelUseSmooth),
                       !.quaternion = IF c.travelUseRotation
                                      THEN Slerp(c.travelStartRot, c.travelEndRot,
                                                 travelAlpha, c.travelUseSmooth)
                                      ELSE @],
             LAMBDA moved :
                 IF GreaterThanOne(travelAlpha, c.travelDuration)
                 THEN endTravel(moved)
                 ELSE moved))

\* update(), dt being clock.getElapsedTime() - lastElapsedTime; the view it
\* notifies is not part of the model
update(c, dt) ==
    IF c.state = State.TRAVEL THEN handleTravel(c, dt) ELSE c

\* lines 157-176: travelEndRot
EndRotation(c, targetPos, targetOrientation) ==
    IF targetOrientation.kind = "quaternion" THEN targetOrientation.q
    ELSE IF targetOrientation.kind = "vector3"
         THEN IF targetOrientation.same
              THEN LookAtRotation(c.position.v, targetOrientation.point)
              ELSE LookAtRotation(targetPos, targetOrientation.point)
         ELSE c.travelEndRot

\* travelDuration without line 204
TravelDurationUnclamped(c, targetPos, travelTime, travelUseRotation, travelEndRot, seen) ==
    IF c.instantTravel THEN 0
    ELSE IF travelTime.auto
         THEN Var(MinI(autoTravelTimeDist, DistanceToMetres(targetPos, c.position.v)),
                  LAMBDA distance :
              Var(Lerp(autoTravelTimeMin, autoTravelTimeMax, distance, autoTravelTimeDist),
                  LAMBDA travelDuration :
                  IF travelUseRotation
                  THEN Var(IF travelEndRot = c.quaternion THEN 0 ELSE seen,
                           LAMBDA angularDifference :
                           (travelDuration * (1000 + 2 * angularDifference)) \div 1000)
                  ELSE travelDuration))
         ELSE travelTime.ms

\* lines 183-209: travelDuration; seen is what 0.5 - 0.5 * dot comes to for two
\* rotations that differ
TravelDuration(c, targetPos, travelTime, travelUseRotation, travelEndRot, seen) ==
    IF c.instantTravel THEN 0
    ELSE IF travelTime.auto
         THEN Var(MinI(autoTravelTimeDist, DistanceToMetres(targetPos, c.position.v)),
                  LAMBDA distance :
              Var(Lerp(autoTravelTimeMin, autoTravelTimeMax, distance, autoTravelTimeDist),
                  LAMBDA travelDuration :
                  IF travelUseRotation
                  THEN Var(IF travelEndRot = c.quaternion THEN 0 ELSE seen,
                           LAMBDA angularDifference :
                           MinI((travelDuration * (1000 + 2 * angularDifference)) \div 1000,
                                autoTravelTimeMax))
                  ELSE travelDuration))
         ELSE travelTime.ms

\* startTravel; its update() is the first of the travel and reads no time
startTravel(c, targetPos, travelTime, targetOrientation, useSmooth, angularDifference) ==
    Var(targetOrientation.kind # "none", LAMBDA travelUseRotation :
    Var(EndRotation(c, targetPos, targetOrientation), LAMBDA travelEndRot :
        update([updateCursorType([c EXCEPT !.state = State.TRAVEL])
                   EXCEPT !.travelUseRotation = travelUseRotation,
                          !.travelUseSmooth = useSmooth,
                          !.travelStartPos = c.position.v,
                          !.travelStartRot = c.quaternion,
                          !.travelEndRot = travelEndRot,
                          !.travelEndPos = targetPos,
                          !.travelDuration =
                              TravelDuration(c, targetPos, travelTime, travelUseRotation,
                                             travelEndRot, angularDifference),
                          !.travelAlpha = Finite(0),
                          !.travelStarted = FALSE],
               0)))

handleMouseDownPan(c, point) == [c EXCEPT !.panStart = point, !.panDelta = Zero3]

\* panEnd is the point under the cursor at the height of panStart
handleMouseMovePan(c, panEnd) ==
    Var(VSub(panEnd, c.panStart), LAMBDA panDelta :
        update([c EXCEPT !.panDelta = panDelta,
                         !.position = At(VSub(c.position.v, panDelta))], 0))

\* lines 360-383: moveTarget
SmartZoomTarget(position, pointUnderCursor) ==
    Var(VSub(pointUnderCursor, position), LAMBDA d :
    Var(Sqrt(d[1] * d[1] + d[2] * d[2]), LAMBDA length :
    Var(DistanceToMetres(position, pointUnderCursor), LAMBDA distanceToPoint :
    Var(Lerp(smartZoomHeightMin, smartZoomHeightMax,
             MinI(distanceToPoint, SmartZoomFarDistance), SmartZoomFarDistance),
        LAMBDA targetHeight :
        << pointUnderCursor[1] - (d[1] * targetHeight * 2) \div MaxI(length, 1),
           pointUnderCursor[2] - (d[2] * targetHeight * 2) \div MaxI(length, 1),
           pointUnderCursor[3] + targetHeight >>))))

smartZoom(c, pointUnderCursor, angularDifference) ==
    startTravel(c, SmartZoomTarget(c.position.v, pointUnderCursor), Auto,
                Vector3(pointUnderCursor, FALSE), TRUE, angularDifference)

\* the direction a camera at rest looks in: down the z axis for the rotation
\* by 0, and for a lookAt of the point it is at (Matrix4.lookAt)
ViewDirection(q) ==
    IF q.kind = "lookAt" /\ q.dir # Zero3 THEN q.dir ELSE <<0, 0, -1>>

\* num / den for den # 0, in whole units
Divided(num, den) == IF den > 0 THEN num \div den ELSE (-num) \div (-den)

\* get3DPointAtScreenXY(screenCenter) with no geometry at the centre of the
\* screen: get3DPointUnderCursor(screenCenter, groundHeight), the point of
\* the plane at groundHeight on the line of sight of a camera that does not
\* look along the plane (lines 286-320)
ScreenCenterPoint(c) ==
    Var(ViewDirection(c.quaternion), LAMBDA dir :
    Var(groundHeight - c.position.v[3], LAMBDA rise :
        << c.position.v[1] + Divided(dir[1] * rise, dir[3]),
           c.position.v[2] + Divided(dir[2] * rise, dir[3]),
           groundHeight >>))

initiateRotate(c) ==
    Var(ScreenCenterPoint(c), LAMBDA point :
        [c EXCEPT !.centerPoint = point,
                  !.phi = Acos(c.position.v[3] - point[3],
                               DistanceToMetres(c.position.v, point)),
                  !.state = State.ROTATE])

\* Vector3.applyQuaternion for the rotation about z by a quarter turn
QuarterTurnZ(v) == <<-v[2], v[1], v[3]>>

\* Vector3.applyQuaternion for the rotation by phiDelta about the x axis of
\* the camera, which is level and square to the offset of a camera that looks
\* at centerPoint: the offset turns away from +z by phiDelta.  Right above
\* centerPoint the x axis is +x for the rotation by 0 and +y after a lookAt.
RotationX(offset, q, phiDelta) ==
    Var(Sqrt(offset[1] * offset[1] + offset[2] * offset[2]), LAMBDA level :
    Var((level * MathCos(phiDelta) + offset[3] * MathSin(phiDelta)) \div 10000, LAMBDA out :
    Var((offset[3] * MathCos(phiDelta) - level * MathSin(phiDelta)) \div 10000, LAMBDA up :
        IF level # 0
        THEN <<(offset[1] * out) \div level, (offset[2] * out) \div level, up>>
        ELSE IF q.kind = "identity" THEN <<0, -out, up>> ELSE <<out, 0, up>>)))

\* handleMouseMoveRotate for a pointer that moved by phiDelta steps along y
\* and, along x, not at all or by a quarter turn of thetaDelta
handleMouseMoveRotate(c, phiDelta, quarterTurn) ==
    Var(VSub(c.position.v, c.centerPoint), LAMBDA offset :
    Var(/\ c.phi + phiDelta >= c.minZenithAngle
        /\ c.phi + phiDelta <= c.maxZenithAngle
        /\ phiDelta # 0, LAMBDA tilts :
    Var(IF tilts THEN RotationX(offset, c.quaternion, phiDelta) ELSE offset,
        LAMBDA tilted :
    Var(VAdd(IF quarterTurn THEN QuarterTurnZ(tilted) ELSE tilted, c.centerPoint),
        LAMBDA position :
        update([c EXCEPT !.phi = IF tilts THEN @ + phiDelta ELSE @,
                         !.position = At(position),
                         !.quaternion = LookAtRotation(position, c.centerPoint)], 0)))))

goToTopView(c, angularDifference) ==
    startTravel(c, <<cityCenter[1], cityCenter[2], topViewAltitude>>, Auto,
                Quaternion(NoRotation), TRUE, angularDifference)

goToStartView(c, angularDifference) ==
    startTravel(c, startPosition, Auto, Vector3(startLook, FALSE), TRUE, angularDifference)

\* startZoom for a wheel turned by delta over pointUnderCursor
startZoom(c, delta, pointUnderCursor) ==
    IF delta > 0
    THEN startTravel(c, LerpVectorsAt(c.position.v, pointUnderCursor,
                                      zoomInFactor.num, zoomInFactor.den),
                     Duration(zoomTravelTime), None, FALSE, 0)
    ELSE IF delta < 0 /\ c.position.v[3] < topViewAltitude
         THEN startTravel(c, LerpVectorsAt(c.position.v, pointUnderCursor,
                                           -zoomOutFactor.num, zoomOutFactor.den),
                          Duration(zoomTravelTime), None, FALSE, 0)
         ELSE c

\* the event handlers (lines 535-640)
onMouseDown(c, button, point, angularDifference) ==
    IF c.state = State.TRAVEL THEN c
    ELSE Var(IF button = mouseButtons.LEFTCLICK
             THEN IF c.isCtrlDown
                  THEN initiateRotate(c)
                  ELSE [handleMouseDownPan(c, point) EXCEPT !.state = State.PAN]
             ELSE IF button = mouseButtons.MIDDLECLICK
                  THEN smartZoom(c, point, angularDifference)
                  ELSE IF button = mouseButtons.RIGHTCLICK
                       THEN initiateRotate(c)
                       ELSE c,
             LAMBDA handled :
                 updateCursorType(
                     [handled EXCEPT !.listening = @ \/ handled.state # State.NONE]))

onMouseUp(c) ==
    updateCursorType(
        [c EXCEPT !.listening = FALSE,
                  !.panDelta = Zero3,
                  !.state = IF c.state # State.TRAVEL THEN State.NONE ELSE @])

\* move is where the pointer went: the point under it for a pan, whether it
\* turned the camera a quarter turn for a rotation
onMouseMove(c, move) ==
    IF c.state = State.ROTATE THEN handleMouseMoveRotate(c, move.phiDelta, move.quarterTurn)
    ELSE IF c.state = State.PAN THEN handleMouseMovePan(c, VAdd(c.panStart, move.drag))
    ELSE c

onKeyUp(c, keyCode) ==
    IF keyCode = keys.CTRL THEN [c EXCEPT !.isCtrlDown = FALSE] ELSE c

onKeyDown(c, keyCode, angularDifference) ==
    IF c.state = State.TRAVEL THEN c
    ELSE Var(IF keyCode = keys.T THEN goToTopView(c, angularDifference) ELSE c,
             LAMBDA c1 :
         Var(IF keyCode = keys.S THEN goToStartView(c1, angularDifference) ELSE c1,
             LAMBDA c2 :
             IF keyCode = keys.CTRL THEN [c2 EXCEPT !.isCtrlDown = TRUE] ELSE c2))

\* onMouseWheel without the test of line 637
onMouseWheelAlways(c, delta, point) == startZoom(c, delta, point)

onMouseWheel(c, delta, point) ==
    IF c.state = State.NONE THEN startZoom(c, delta, point) ELSE c

-----------------------------------------------------------------------------
(* PlanarControls: the runs *)

\* the number of input events and startTravel calls a run handles outside a
\* travel
MaxInputs == 2

\* event.button: the three buttons of mouseButtons and a fourth one
Buttons == {0, 1, 2, 3}

\* event.keyCode
KeyCodes == {keys.CTRL, keys.S, keys.T, keys.R}

\* event.wheelDelta
WheelDeltas == {-120, 120}

\* the world points the view finds under the pointer or at the screen centre
PickedPoints == {cityCenter, <<1200, -900, 50>>}

\* where a mouse move takes the pointer: the drag of the point grabbed by a
\* pan, whether it turns a rotation by a quarter turn, and the steps it tilts
\* it by
Moves == { [drag |-> Zero3, quarterTurn |-> FALSE, phiDelta |-> 0],
           [drag |-> <<-400, 300, 0>>, quarterTurn |-> TRUE, phiDelta |-> 0],
           [drag |-> Zero3, quarterTurn |-> TRUE, phiDelta |-> 4],
           [drag |-> Zero3, quarterTurn |-> FALSE, phiDelta |-> -2] }

\* the options of the constructor: none, instantTravel, and a zenith angle
\* kept between 15 and 45 degrees
Options ==
    { [instantTravel |-> FALSE, minZenithAngle |-> 0, maxZenithAngle |-> 0],
      [instantTravel |-> TRUE, minZenithAngle |-> 0, maxZenithAngle |-> 0],
      [instantTravel |-> FALSE, minZenithAngle |-> 2, maxZenithAngle |-> 6] }

\* the time between two update() calls, in milliseconds
DeltaTimes == {0, 1500, 5000}

\* the startTravel calls of the application
CallTargets == {<<0, -2400, 700>>}
CallTimes == {Auto, Duration(3000)}
CallOrientations(targetPos) ==
    {None, Quaternion(NoRotation), Vector3(cityCenter, FALSE), Vector3(targetPos, TRUE)}

\* no startTravel call yet
LogStart ==
    [ inputs |-> 0,              \* events and calls handled outside a travel
      ctrlHeld |-> FALSE,        \* the CTRL key is down
      targetPos |-> Zero3,       \* the arguments of the last startTravel call
      travelTime |-> Auto,
      targetOrientation |-> None,
      startPosition |-> Zero3,   \* the camera when startTravel was called
      startRotation |-> NoRotation,
      framed |-> TRUE ]          \* a frame has passed since it returned

\* the log after startTravel(targetPos, travelTime, targetOrientation, _) on c
Started(l, c, targetPos, travelTime, targetOrientation) ==
    [l EXCEPT !.targetPos = targetPos,
              !.travelTime = travelTime,
              !.targetOrientation = targetOrientation,
              !.startPosition = c.position.v,
              !.startRotation = c.quaternion,
              !.framed = FALSE]

Handled(l) == [l EXCEPT !.inputs = @ + 1]

ControlsInit ==
    /\ heap = <<>>
    /\ obbs = <<>>
    /\ thrown = Undefined
    /\ hist = <<>>
    /\ controls \in {PlanarControls(options) : options \in Options}
    /\ log = LogStart
    /\ layer = Undefined
    /\ returned = Undefined

\* a mousedown event on the canvas
MouseDown(button, point) ==
    /\ controls.state = State.TRAVEL \/ log.inputs < MaxInputs
    /\ \E seen \in IF button = mouseButtons.MIDDLECLICK THEN AngularDifferences ELSE {0} :
           controls' = onMouseDown(controls, button, point, seen)
    /\ log' = IF controls.state = State.TRAVEL THEN log
              ELSE IF button = mouseButtons.MIDDLECLICK
                   THEN Started(Handled(log), controls,
                                SmartZoomTarget(controls.position.v, point), Auto,
                                Vector3(point, FALSE))
                   ELSE Handled(log)
    /\ UNCHANGED <<heap, obbs, thrown, hist, layer, returned>>

\* a mouseup event, listened to since a mousedown
MouseUp ==
    /\ controls.listening
    /\ controls' = onMouseUp(controls)
    /\ UNCHANGED <<heap, obbs, thrown, hist, log, layer, returned>>

\* a mousemove event, listened to since a mousedown
MouseMove(move) ==
    /\ controls.listening
    /\ controls.state \in {State.PAN, State.ROTATE} => log.inputs < MaxInputs
    /\ controls' = onMouseMove(controls, move)
    /\ log' = IF controls.state \in {State.PAN, State.ROTATE} THEN Handled(log) ELSE log
    /\ UNCHANGED <<heap, obbs, thrown, hist, layer, returned>>

\* a keydown event; the key stays down until its keyup
KeyDown(keyCode) ==
    /\ (controls.state # State.TRAVEL /\ keyCode \in {keys.S, keys.T})
           => log.inputs < MaxInputs
    /\ \E seen \in IF keyCode \in {keys.S, keys.T} THEN AngularDifferences ELSE {0} :
           controls' = onKeyDown(controls, keyCode, seen)
    /\ \E held \in {[log EXCEPT !.ctrlHeld = @ \/ keyCode = keys.CTRL]} :
           log' = IF controls.state = State.TRAVEL \/ keyCode \notin {keys.S, keys.T}
                  THEN held
                  ELSE IF keyCode = keys.T
                       THEN Started(Handled(held), controls,
                                    <<cityCenter[1], cityCenter[2], topViewAltitude>>,
                                    Auto, Quaternion(NoRotation))
                       ELSE Started(Handled(held), controls, startPosition, Auto,
                                    Vector3(startLook, FALSE))
    /\ UNCHANGED <<heap, obbs, thrown, hist, layer, returned>>

\* a keyup event
KeyUp(keyCode) ==
    /\ keyCode = keys.CTRL => log.ctrlHeld
    /\ controls' = onKeyUp(controls, keyCode)
    /\ log' = [log EXCEPT !.ctrlHeld = @ /\ keyCode # keys.CTRL]
    /\ UNCHANGED <<heap, obbs, thrown, hist, layer, returned>>

\* a mousewheel event on the canvas
MouseWheel(delta, point) ==
    /\ controls.state = State.NONE => log.inputs < MaxInputs
    /\ controls' = onMouseWheel(controls, delta, point)
    /\ log' = IF controls.state # State.NONE THEN log
              ELSE IF controls'.state # State.TRAVEL THEN Handled(log)
              ELSE Started(Handled(log), controls, controls'.travelEndPos,
                           Duration(zoomTravelTime), None)
    /\ UNCHANGED <<heap, obbs, thrown, hist, layer, returned>>

\* the frame requester calls update(), dt after the last update()
Frame(dt) ==
    /\ controls' = update(controls, dt)
    /\ log' = [log EXCEPT !.framed = TRUE]
    /\ UNCHANGED <<heap, obbs, thrown, hist, layer, returned>>

\* the application calls startTravel while no travel is under way
StartTravelCall(targetPos, travelTime, targetOrientation, useSmooth) ==
    /\ controls.state # State.TRAVEL
    /\ log.inputs < MaxInputs
    /\ \E seen \in AngularDifferences :
           controls' = startTravel(controls, targetPos, travelTime, targetOrientation,
                                   useSmooth, seen)
    /\ log' = Started(Handled(log), controls, targetPos, travelTime, targetOrientation)
    /\ UNCHANGED <<heap, obbs, thrown, hist, layer, returned>>

ControlsNext ==
    \/ \E button \in Buttons, point \in PickedPoints : MouseDown(button, point)
    \/ MouseUp
    \/ \E move \in Moves : MouseMove(move)
    \/ \E keyCode \in KeyCodes : KeyDown(keyCode)
    \/ \E keyCode \in KeyCodes : KeyUp(keyCode)
    \/ \E delta \in WheelDeltas, point \in PickedPoints : MouseWheel(delta, point)
    \/ \E dt \in DeltaTimes : Frame(dt)
    \/ \E targetPos \in CallTargets, travelTime \in CallTimes :
           \E targetOrientation \in CallOrientations(targetPos) :
               StartTravelCall(targetPos, travelTime, targetOrientation, FALSE)

ControlsSpec == ControlsInit /\ [][ControlsNext]_vars

\* the frames keep coming, and time advances between them
FairControlsSpec ==
    /\ ControlsSpec
    /\ WF_vars(\E dt \in DeltaTimes \ {0} : Frame(dt))

-----------------------------------------------------------------------------
(* C17 - C20: PlanarControls *)

\* the state the header of PlanarControls.js gives a mousedown from NONE
MouseDownState(button, ctrl) ==
    IF button = mouseButtons.LEFTCLICK
    THEN IF ctrl THEN State.ROTATE ELSE State.PAN
    ELSE IF button = mouseButtons.RIGHTCLICK THEN State.ROTATE
    ELSE IF button = mouseButtons.MIDDLECLICK THEN State.TRAVEL
    ELSE State.NONE

\* the state it gives a keydown from NONE
KeyDownState(keyCode) ==
    IF keyCode \in {keys.S, keys.T} THEN State.TRAVEL ELSE State.NONE

\* C17: input mapping from the idle state.  In every state where the control
\* state is NONE, a left mousedown takes it to PAN if the CTRL key is up and to
\* ROTATE if it is down, a right mousedown to ROTATE, a middle mousedown to
\* TRAVEL, a keydown of S or T to TRAVEL, and any other button or key leaves it
\* NONE.
C17_InputMapping ==
    controls.state = State.NONE =>
        /\ \A button \in Buttons : \A point \in PickedPoints : \A seen \in AngularDifferences :
               onMouseDown(controls, button, point, seen).state
                   = MouseDownState(button, log.ctrlHeld)
        /\ \A keyCode \in KeyCodes : \A seen \in AngularDifferences :
               onKeyDown(controls, keyCode, seen).state = KeyDownState(keyCode)

\* the same mapping read off the flag isCtrlDown in place of the key: it is
\* this one that holds in every state
C17_MappingByFlag ==
    controls.state = State.NONE =>
        /\ \A button \in Buttons : \A point \in PickedPoints : \A seen \in AngularDifferences :
               onMouseDown(controls, button, point, seen).state
                   = MouseDownState(button, controls.isCtrlDown)
        /\ \A keyCode \in KeyCodes : \A seen \in AngularDifferences :
               onKeyDown(controls, keyCode, seen).state = KeyDownState(keyCode)

\* the rotation the end of the last travel owes its targetOrientation: the
\* quaternion, or the look-at of the point from targetPos
OwedRotation ==
    IF log.targetOrientation.kind = "quaternion" THEN log.targetOrientation.q
    ELSE IF log.targetOrientation.kind = "vector3"
         THEN LookAtRotation(log.targetPos, log.targetOrientation.point)
         ELSE log.startRotation

\* C18: the end of a travel.  A step that takes the state from TRAVEL to NONE
\* leaves the camera at the targetPos of the last startTravel call, with the
\* quaternion passed as targetOrientation, or looking at the point passed as
\* targetOrientation from targetPos, or, for 'none', with the rotation it had
\* when startTravel was called.
C18_TravelEnd ==
    [][ (controls.state = State.TRAVEL /\ controls'.state = State.NONE) =>
            /\ controls'.position = At(log.targetPos)
            /\ controls'.quaternion = OwedRotation ]_vars

\* C18 as amended: as C18, but where the Vector3 passed as targetOrientation is
\* the very object passed as targetPos the camera ends with the rotation that
\* looks at that point from the position it had when startTravel was called.
C18_TravelEndOrSamePoint ==
    [][ (controls.state = State.TRAVEL /\ controls'.state = State.NONE) =>
            /\ controls'.position = At(log.targetPos)
            /\ controls'.quaternion =
                   IF log.targetOrientation.kind = "vector3" /\ log.targetOrientation.same
                   THEN LookAtRotation(log.startPosition, log.targetPos)
                   ELSE OwedRotation ]_vars

\* a travel to a point that was passed as targetOrientation too has ended: the
\* camera is there, turned as it would look at the point from where it left
C18_Witness ==
    /\ controls.state = State.NONE
    /\ log.inputs > 0 /\ log.framed
    /\ log.targetOrientation.kind = "vector3" /\ log.targetOrientation.same
    /\ controls.position = At(log.targetPos)
    /\ log.startPosition # log.targetPos
    /\ controls.quaternion = LookAtRotation(log.startPosition, log.targetPos)
    /\ controls.quaternion # log.startRotation
    /\ controls.quaternion # OwedRotation

\* C19: every travel terminates.  While the frames keep coming and time
\* advances between them, a travel of positive duration is followed by the
\* state NONE, whatever events come in during it.
C19_TravelTerminates ==
    (controls.state = State.TRAVEL /\ controls.travelDuration > 0)
        ~> (controls.state = State.NONE)

\* a travel of positive duration has ended at its target although CTRL went
\* down during it, which the controls did not see
C19_Witness ==
    /\ controls.state = State.NONE
    /\ ~controls.instantTravel
    /\ controls.travelDuration > 0
    /\ controls.travelAlpha.kind = "finite"
    /\ controls.travelAlpha.num > controls.travelDuration
    /\ controls.position = At(log.targetPos)
    /\ log.ctrlHeld /\ ~controls.isCtrlDown

\* C20: instant travels.  With instantTravel set, the first update() after
\* startTravel returned finds a travel of duration 0 and ends it, whatever the
\* time dt since the last update(): the state is NONE and the camera at
\* targetPos.
C20_InstantTravelEnds ==
    [][ ( /\ controls.instantTravel
          /\ controls.state = State.TRAVEL
          /\ ~log.framed /\ log'.framed )
        => /\ controls.travelDuration = 0
           /\ controls'.state = State.NONE
           /\ controls'.position = At(log.targetPos) ]_vars

-----------------------------------------------------------------------------
(* C21 - C22: PlanarControls, the duration of a travel and the events during
   it *)

\* C21: the duration of an 'auto' travel.  Without instantTravel, a travel
\* started with travelTime 'auto' has a duration of at least autoTravelTimeMin
\* and at most autoTravelTimeMax, whatever the distance to the target and the
\* angular difference between the rotations at start and end.
C21_AutoDurationInRange ==
    (~controls.instantTravel /\ controls.state = State.TRAVEL /\ log.travelTime.auto) =>
        /\ autoTravelTimeMin <= controls.travelDuration
        /\ controls.travelDuration <= autoTravelTimeMax

\* an 'auto' travel under way that turns the camera: the distance alone gives
\* less than autoTravelTimeMax, the angular difference brought it up to it
C21_Witness ==
    /\ controls.state = State.TRAVEL
    /\ ~controls.instantTravel
    /\ log.travelTime.auto
    /\ controls.travelUseRotation
    /\ controls.travelEndRot # log.startRotation
    /\ DistanceToMetres(log.targetPos, log.startPosition) < autoTravelTimeDist
    /\ controls.travelDuration = autoTravelTimeMax

\* what C22 says an event during a travel leaves alone: the control state and
\* the travel's positions, end rotation, duration and progress
Travel(c) ==
    [ state |-> c.state,
      travelStartPos |-> c.travelStartPos,
      travelEndPos |-> c.travelEndPos,
      travelEndRot |-> c.travelEndRot,
      travelDuration |-> c.travelDuration,
      travelAlpha |-> c.travelAlpha ]

\* C22: input is blocked during a travel.  In every state where the control
\* state is TRAVEL, a mousedown of any button on any point, a keydown of S or
\* of T and a mousewheel event in either direction leave the control state
\* TRAVEL and the travel's start and end position, end rotation, duration and
\* progress as they are.
C22_InputBlocked ==
    controls.state = State.TRAVEL =>
        /\ \A button \in Buttons : \A point \in PickedPoints : \A seen \in AngularDifferences :
               Travel(onMouseDown(controls, button, point, seen)) = Travel(controls)
        /\ \A keyCode \in {keys.S, keys.T} : \A seen \in AngularDifferences :
               Travel(onKeyDown(controls, keyCode, seen)) = Travel(controls)
        /\ \A delta \in WheelDeltas : \A point \in PickedPoints :
               Travel(onMouseWheel(controls, delta, point)) = Travel(controls)

\* a travel half way: it has a positive duration, frames have passed and more
\* are to come, and the target is not where the camera started
C22_Witness ==
    /\ controls.state = State.TRAVEL
    /\ controls.travelDuration > 0
    /\ controls.travelAlpha.kind = "finite"
    /\ 0 < controls.travelAlpha.num
    /\ controls.travelAlpha.num < controls.travelDuration
    /\ controls.travelStartPos # controls.travelEndPos
    /\ log.framed

-----------------------------------------------------------------------------
(* Vector_Provider (Vector_Provider.js)                                     *)
(*                                                                         *)
(* A layer is a record of its properties; a property that is not set holds *)
(* Undefined.  layer.extent is a record of its class ("Object" for a plain *)
(* object, "Extent" for an instance of Extent) and its crs.  A tile is a    *)
(* record of its level, of whether its material is null and of what         *)
(* layer.extent.intersect(tile.extent) answers for it.  A call comes to an  *)
(* outcome: the layer as the call leaves it, what the call returned and the  *)
(* error it threw.                                                          *)

\* a JavaScript value a call returns or a promise settles with
Value(type, text, zoom) == [type |-> type, text |-> text, zoom |-> zoom]

\* what a call returns: nothing (kind Undefined), a promise that is "resolved"
\* or "rejected" with a value, or a value that is no promise (kind "value")
Returned(kind, value) == [kind |-> kind, value |-> value]
Nothing == Returned(Undefined, Value(Undefined, "", 0))

Outcome(l, r, t) == [layer |-> l, returned |-> r, thrown |-> t]
Throws(l, t) == Outcome(l, Nothing, t)

\* lines 31-39 with the test of line 37 before that of line 34
RequiredProjectionFirst(l) ==
    IF l.file = Undefined THEN "layer.file is required."
    ELSE IF l.projection = Undefined THEN "layer.projection is required"
    ELSE IF l.extent.class = Undefined THEN "layer.extent is required"
    ELSE Undefined

\* lines 31-39: the message of the error thrown for the first required
\* property that is missing, or Undefined
Required(l) ==
    IF l.file = Undefined THEN "layer.file is required."
    ELSE IF l.extent.class = Undefined THEN "layer.extent is required"
    ELSE IF l.projection = Undefined THEN "layer.projection is required"
    ELSE Undefined

\* preprocessDataLayer(layer); GeoJSON2Three.parse gives the geojson
preprocessDataLayer(l) ==
    IF Required(l) # Undefined THEN Throws(l, Required(l))
    ELSE Var(IF l.extent.class # "Extent"
             THEN [l EXCEPT !.extent = [class |-> "Extent", crs |-> l.projection]]
             ELSE l,
             LAMBDA l1 :
         IF ~l1.options.defined THEN Throws(l1, "TypeError")
         ELSE Outcome(
                  [l1 EXCEPT !.options.zoom = IF l1.options.zoom.defined THEN @
                                              ELSE [defined |-> TRUE, min |-> 0, max |-> 21],
                             !.format = IF l1.options.mimetype # Undefined
                                        THEN l1.options.mimetype
                                        ELSE "vector/kml",
                             !.style = IF l1.style # Undefined THEN @ ELSE "",
                             !.geojson = IF l1.options.mimetype = "vector/kml"
                                         THEN "geojson"
                                         ELSE @],
                  Nothing, Undefined))

\* tileInsideLimit(tile, layer): && reads its right side only where the left
\* one is true
tileInsideLimit(tile, l) ==
    IF ~l.options.defined \/ ~l.options.zoom.defined
    THEN [value |-> FALSE, thrown |-> "TypeError"]
    ELSE IF ~(tile.level >= l.options.zoom.min /\ tile.level <= l.options.zoom.max)
    THEN [value |-> FALSE, thrown |-> Undefined]
    ELSE IF l.extent.class # "Extent"
    THEN [value |-> FALSE, thrown |-> "TypeError"]
    ELSE [value |-> tile.intersects, thrown |-> Undefined]

\* GeoJSON2Texture.getTextureFromGeoson(collections, extent, sizeTexture): it
\* reads collections.children
getTextureFromGeoson(collections) ==
    IF collections = Undefined
    THEN [texture |-> Undefined, thrown |-> "TypeError"]
    ELSE [texture |-> "featureRaster", thrown |-> Undefined]

\* getColorTexture(tile, layer)
getColorTexture(tile, l) ==
    Var(tileInsideLimit(tile, l), LAMBDA inside :
        IF inside.thrown # Undefined THEN Throws(l, inside.thrown)
        ELSE IF ~inside.value
        THEN Outcome(l, Returned("rejected", Value("string", "outside", 0)), Undefined)
        ELSE IF tile.material = "null"
        THEN Outcome(l, Returned("resolved", Value(Undefined, "", 0)), Undefined)
        ELSE IF l.type = "color"
        THEN Var(getTextureFromGeoson(l.geojson), LAMBDA made :
                 IF made.thrown # Undefined THEN Throws(l, made.thrown)
                 ELSE Outcome(l, Returned("resolved",
                                          Value("result", made.texture, tile.level)),
                              Undefined))
        ELSE Outcome(l, Returned("resolved", Value(Undefined, "", 0)), Undefined))

\* the properties an object literal inherits from Object.prototype, among
\* them those the model's formats name
ObjectPrototype == {"constructor", "toString", "__proto__"}

\* supportedFormats[format]: the own property 'vector/kml', or an inherited
\* one, or undefined
supportedFormats(format) ==
    IF format = "vector/kml" THEN "getColorTexture"
    ELSE IF format \in ObjectPrototype THEN format
    ELSE Undefined

\* executeCommand(command), tile being command.requester and l command.layer
executeCommand(tile, l) ==
    Var(supportedFormats(l.format), LAMBDA func :
        IF func = Undefined
        THEN Outcome(l, Returned("rejected", Value("Error", "Unsupported mimetype", 0)),
                     Undefined)
        ELSE IF func = "getColorTexture" THEN getColorTexture(tile, l)
        \* Object.prototype.toString.call(undefined)
        ELSE IF func = "toString"
        THEN Outcome(l, Returned("value", Value("string", "[object Undefined]", 0)),
                     Undefined)
        \* Object(tile) is tile
        ELSE IF func = "constructor"
        THEN Outcome(l, Returned("value", Value("tile", "", tile.level)), Undefined)
        \* Object.prototype is no function
        ELSE Throws(l, "TypeError"))

-----------------------------------------------------------------------------
(* Vector_Provider: the runs *)

\* the layers the application configures
Layers ==
    [ file : {Undefined, "doc.kml"},
      extent : { [class |-> Undefined, crs |-> Undefined],
                 [class |-> "Object", crs |-> Undefined],
                 [class |-> "Extent", crs |-> "EPSG:4326"] },
      projection : {Undefined, "EPSG:4326"},
      options : [ defined : {TRUE},
                  zoom : { [defined |-> FALSE, min |-> 0, max |-> 0],
                           [defined |-> TRUE, min |-> 2, max |-> 5] },
                  mimetype : {Undefined, "vector/kml", "image/png"}
                             \cup ObjectPrototype ]
                \cup { [ defined |-> FALSE,
                         zoom |-> [defined |-> FALSE, min |-> 0, max |-> 0],
                         mimetype |-> Undefined ] },
      format : {Undefined},
      style : {Undefined},
      type : {"color", "elevation"},
      geojson : {Undefined} ]

\* the tiles that request a texture
Tiles == [level : {1, 3, 22}, intersects : BOOLEAN, material : {"null", "material"}]

\* the tile of a call that has none
NoTile == [level |-> 0, intersects |-> FALSE, material |-> "null"]

ProviderInit ==
    /\ heap = <<>>
    /\ obbs = <<>>
    /\ thrown = Undefined
    /\ hist = <<>>
    /\ controls = Undefined
    /\ log = Undefined
    /\ layer \in Layers
    /\ returned = [op |-> "new", tile |-> NoTile, layer |-> layer, result |-> Nothing]

\* what a call op with tile on the layer does to the state
Called(op, tile, outcome) ==
    /\ layer' = outcome.layer
    /\ thrown' = outcome.thrown
    /\ returned' = [op |-> op, tile |-> tile, layer |-> layer, result |-> outcome.returned]
    /\ UNCHANGED <<heap, obbs, hist, controls, log>>

\* the application adds the layer
PreprocessDataLayerCall == Called("preprocessDataLayer", NoTile, preprocessDataLayer(layer))

\* the scheduler runs a command of a tile for the layer
ExecuteCommandCall(tile) == Called("executeCommand", tile, executeCommand(tile, layer))

\* a direct call of getColorTexture
GetColorTextureCall(tile) == Called("getColorTexture", tile, getColorTexture(tile, layer))

ProviderNext ==
    \/ PreprocessDataLayerCall
    \/ \E tile \in Tiles : ExecuteCommandCall(tile)
    \/ \E tile \in Tiles : GetColorTextureCall(tile)

ProviderSpec == ProviderInit /\ [][ProviderNext]_vars

-----------------------------------------------------------------------------
(* C23 - C25: Vector_Provider *)

\* the promise executeCommand owes a format it does not support
Unsupported == Returned("rejected", Value("Error", "Unsupported mimetype", 0))

\* C23: executeCommand.  After executeCommand on a layer whose format is not
\* 'vector/kml' the call has thrown nothing and returned a promise rejected
\* with the Error 'Unsupported mimetype'; on a layer whose format is
\* 'vector/kml' it has come to what getColorTexture(tile, layer) comes to.
C23_UnsupportedRejects ==
    returned.op = "executeCommand" =>
        IF returned.layer.format # "vector/kml"
        THEN thrown = Undefined /\ returned.result = Unsupported
        ELSE \E o \in {getColorTexture(returned.tile, returned.layer)} :
                 thrown = o.thrown /\ returned.result = o.returned /\ layer = o.layer

\* the same for the formats that name no property of Object.prototype: it is
\* this one that holds in every state
C23_OwnFormats ==
    (returned.op = "executeCommand" /\ returned.layer.format \notin ObjectPrototype) =>
        IF returned.layer.format # "vector/kml"
        THEN thrown = Undefined /\ returned.result = Unsupported
        ELSE \E o \in {getColorTexture(returned.tile, returned.layer)} :
                 thrown = o.thrown /\ returned.result = o.returned /\ layer = o.layer

\* the tile is within the limits of the layer: its level within the zoom
\* levels, its extent meeting that of the layer
InsideLimits(tile, l) ==
    /\ l.options.zoom.min <= tile.level
    /\ tile.level <= l.options.zoom.max
    /\ tile.intersects

\* what C24 says getColorTexture returns
Owed(tile, l) ==
    IF ~InsideLimits(tile, l) THEN "rejected"
    ELSE IF tile.material = "null" \/ l.type # "color" THEN "nothing"
    ELSE "result"

\* what it did return
Got ==
    IF thrown # Undefined THEN "thrown"
    ELSE IF returned.result.kind = "rejected" THEN "rejected"
    ELSE IF returned.result.kind = "resolved"
         THEN IF returned.result.value.type = Undefined THEN "nothing"
              ELSE IF returned.result.value.type = "result" THEN "result"
              ELSE "other"
         ELSE "other"

\* C24: getColorTexture.  After getColorTexture on a layer that
\* preprocessDataLayer gave the format 'vector/kml', the promise returned is
\* rejected if the tile is outside the limits of the layer, be its material
\* null or not; for a tile inside the limits it is resolved with no value if
\* the material of the tile is null or the type of the layer is not 'color',
\* and with a texture result otherwise.
C24_GetColorTexture ==
    (returned.op = "getColorTexture" /\ returned.layer.format = "vector/kml") =>
        Got = Owed(returned.tile, returned.layer)

\* the same for the layers whose geojson was parsed: it is this one that holds
\* in every state
C24_ParsedLayers ==
    ( /\ returned.op = "getColorTexture"
      /\ returned.layer.format = "vector/kml"
      /\ returned.layer.geojson # Undefined ) =>
        Got = Owed(returned.tile, returned.layer)

\* C25: preprocessDataLayer.  After preprocessDataLayer on a layer without
\* file the call has thrown 'layer.file is required.', on one with file and
\* without extent 'layer.extent is required', on one with both and without
\* projection 'layer.projection is required', and the layer is as it was; a
\* layer whose zoom, format or style the call has set had all three; and a
\* call that has thrown nothing leaves the zoom levels given, or 0 to 21 where
\* none were, the mimetype as format, or 'vector/kml' where none was given,
\* and a style.
C25_PreprocessDataLayer ==
    returned.op = "preprocessDataLayer" =>
        \E l \in {returned.layer} :
            /\ l.file = Undefined =>
                   thrown = "layer.file is required." /\ layer = l
            /\ (l.file # Undefined /\ l.extent.class = Undefined) =>
                   thrown = "layer.extent is required" /\ layer = l
            /\ ( /\ l.file # Undefined /\ l.extent.class # Undefined
                 /\ l.projection = Undefined ) =>
                   thrown = "layer.projection is required" /\ layer = l
            /\ ( \/ layer.options.zoom # l.options.zoom
                 \/ layer.format # l.format
                 \/ layer.style # l.style ) =>
                   /\ l.file # Undefined
                   /\ l.extent.class # Undefined
                   /\ l.projection # Undefined
            /\ thrown = Undefined =>
                   /\ layer.options.zoom =
                          IF l.options.zoom.defined THEN l.options.zoom
                          ELSE [defined |-> TRUE, min |-> 0, max |-> 21]
                   /\ layer.format =
                          IF l.options.mimetype # Undefined THEN l.options.mimetype
                          ELSE "vector/kml"
                   /\ layer.style # Undefined

\* preprocessDataLayer has thrown for the extent of a layer that had no
\* projection either, and left the layer alone
C25_Witness ==
    /\ returned.op = "preprocessDataLayer"
    /\ returned.layer.file # Undefined
    /\ returned.layer.extent.class = Undefined
    /\ returned.layer.projection = Undefined
    /\ thrown = "layer.extent is required"
    /\ layer = returned.layer
    /\ layer.format = Undefined

-----------------------------------------------------------------------------
(* C26 - C28: OBB, what an extrusion does *)

\* the local height axis of s in world coordinates, of length UnitScale
HeightAxis(s) == ApplyQuaternion(QIdentity[3], Orientation(s))

\* how far position is from originPosition along the local height axis
HeightOffset(s) ==
    VDot(VSub(Position(s), OriginPosition(s)), HeightAxis(s)) \div UnitScale

\* naturalBox.min.z + a and naturalBox.max.z + b of the last extrusion of s
ExtrudedLow(s) == NaturalBox(s).min[3] + hist[s].last.min
ExtrudedHigh(s) == NaturalBox(s).max[3] + hist[s].last.max

\* C26: where an extrusion puts the box.  A built OBB whose last extrusion was
\* updateZ(a, b) has its position on the local height axis through
\* originPosition, at the midpoint of naturalBox.min.z + a and
\* naturalBox.max.z + b from it, and its localBox spans, counted from
\* originPosition, the interval between these two values; so it is too where
\* the first is greater than the second.
C26_ExtrusionMidpoint ==
    \A s \in Live :
        (Built(s) /\ Extruded(s)) =>
            /\ Position(s) =
                   VAdd(OriginPosition(s),
                        VDivide(VScale(HeightAxis(s), HeightOffset(s)), UnitScale))
            /\ 2 * HeightOffset(s) = ExtrudedLow(s) + ExtrudedHigh(s)
            /\ HeightOffset(s) + LocalBox(s).min[3] = MinI(ExtrudedLow(s), ExtrudedHigh(s))
            /\ HeightOffset(s) + LocalBox(s).max[3] = MaxI(ExtrudedLow(s), ExtrudedHigh(s))

\* the same for the extrusions with naturalBox.min.z + a <= naturalBox.max.z + b:
\* it is this one that holds in every state
C26_OrderedExtrusion ==
    \A s \in Live :
        (Built(s) /\ Extruded(s) /\ ExtrudedLow(s) <= ExtrudedHigh(s)) =>
            /\ Position(s) =
                   VAdd(OriginPosition(s),
                        VDivide(VScale(HeightAxis(s), HeightOffset(s)), UnitScale))
            /\ 2 * HeightOffset(s) = ExtrudedLow(s) + ExtrudedHigh(s)
            /\ HeightOffset(s) + LocalBox(s).min[3] = ExtrudedLow(s)
            /\ HeightOffset(s) + LocalBox(s).max[3] = ExtrudedHigh(s)

\* C27: what an extrusion returns.  In every state, updateZ(a, b) on an OBB
\* returns the pair (halfSize - depth / 2, zTranslation): depth is the
\* thickness of its naturalBox on z, halfSize the max.z of its localBox after
\* the call, and zTranslation the distance along the local height axis from
\* originPosition at which the call leaves position.  The pair is the same for
\* any two OBBs with equal naturalBox, whatever extrusions they went through,
\* and the call adds no property to the OBB.
C27_ExtrusionResult ==
    \A s \in Live : \A hp \in HeightPairs :
        Var(UpdateZ(heap, obbs[s], hp[1], hp[2]), LAMBDA r :
            /\ r.result[1] = r.heap[r.obb.box3D.max][3]
                                 - AbsI(NaturalBox(s).min[3] - NaturalBox(s).max[3]) \div 2
            /\ r.heap[r.obb.position] =
                   VAdd(r.heap[r.obb.oPosition],
                        VDivide(VScale(HeightAxis(s), r.result[2]), UnitScale))
            /\ \A t \in Live :
                   NaturalBox(t) = NaturalBox(s) =>
                       UpdateZ(heap, obbs[t], hp[1], hp[2]).result = r.result
            /\ DOMAIN r.obb = DOMAIN obbs[s])

\* two OBBs with the same naturalBox, one of them moved and resized by an
\* extrusion, the other as it was created
C27_Witness ==
    \E s \in Live : \E t \in Live :
        /\ NaturalBox(s) = NaturalBox(t)
        /\ Extruded(s) /\ ~Extruded(t)
        /\ LocalBox(s) # LocalBox(t)
        /\ Position(s) # OriginPosition(s)
        /\ UpdateZ(heap, obbs[s], 0, Radius \div 50).result # <<0, 0>>

\* C28: the frame of an extrusion.  In every state, updateZ(a, b) on an OBB
\* leaves the x and y bounds of its localBox, its orientation, its naturalBox,
\* its originPosition and its centerWorld as they are; of the Vector3 objects
\* it writes only the min and max of the localBox and the position of that
\* OBB, and it creates none.
C28_ExtrusionFrame ==
    \A s \in Live : \A hp \in HeightPairs :
        Var(UpdateZ(heap, obbs[s], hp[1], hp[2]), LAMBDA r :
            /\ \A i \in 1..2 :
                   /\ r.heap[r.obb.box3D.min][i] = LocalBox(s).min[i]
                   /\ r.heap[r.obb.box3D.max][i] = LocalBox(s).max[i]
            /\ r.obb.quaternion = Orientation(s)
            /\ Box(r.heap, r.obb.natBox) = NaturalBox(s)
            /\ r.heap[r.obb.oPosition] = OriginPosition(s)
            /\ r.obb.centerWorld = obbs[s].centerWorld
            /\ RefsOf(r.obb) = RefsOf(obbs[s])
            /\ Len(r.heap) = Len(heap)
            /\ \A i \in 1..Len(heap) :
                   i \notin {obbs[s].box3D.min, obbs[s].box3D.max, obbs[s].position}
                       => r.heap[i] = heap[i])

\* a built OBB that an extrusion has moved and made thicker: its footprint is
\* that of its naturalBox, its height range is set
C28_Witness ==
    \E s \in Live :
        /\ Built(s) /\ Extruded(s)
        /\ HeightRange(s) # [min |-> 0, max |-> 0]
        /\ Position(s) # OriginPosition(s)
        /\ LocalBox(s).max[3] > NaturalBox(s).max[3]
        /\ \A i \in 1..2 : LocalBox(s).max[i] = NaturalBox(s).max[i]
        /\ obbs[s].centerWorld # NoVector

-----------------------------------------------------------------------------
(* C29 - C30: OBB.extentToOBB, the samples and the correction *)

\* the corners, the edge midpoints and the centre of an extent
MidLongitude(e) == e.west + (e.east - e.west) \div 2
MidLatitude(e) == e.south + (e.north - e.south) \div 2
NorthWest(e) == EPSG_4326_Radians(e.west, e.north)
NorthMid(e) == EPSG_4326_Radians(MidLongitude(e), e.north)
NorthEast(e) == EPSG_4326_Radians(e.east, e.north)
EastMid(e) == EPSG_4326_Radians(e.east, MidLatitude(e))
SouthEast(e) == EPSG_4326_Radians(e.east, e.south)
SouthMid(e) == EPSG_4326_Radians(MidLongitude(e), e.south)
SouthWest(e) == EPSG_4326_Radians(e.west, e.south)
WestMid(e) == EPSG_4326_Radians(e.west, MidLatitude(e))
Centre(e) == EPSG_4326_Radians(MidLongitude(e), MidLatitude(e))

Translated(s, t) ==
    Translate(<<Zero3>>, [position |-> 1, quaternion |-> Orientation(s)], t)[1]

-----------------------------------------------------------------------------
(* C31: OBB.extentToOBB, the half sizes *)

\* the greatest and the least coordinate of the points on an axis
Highest(points, axis) ==
    CHOOSE v \in {points[i][axis] : i \in DOMAIN points} :
        \A i \in DOMAIN points : points[i][axis] <= v
Lowest(points, axis) ==
    CHOOSE v \in {points[i][axis] : i \in DOMAIN points} :
        \A i \in DOMAIN points : v <= points[i][axis]

\* C31: the half sizes are half the spread of the samples.  For every OBB
\* built by extentToOBB, the 9 projected and rotated samples have the centre
\* sample at the origin, halfLength (the x bound of naturalBox) is half of the
\* greatest less the least y coordinate of the samples, halfWidth (the y bound
\* of naturalBox) is half of the greatest less the least x coordinate, and
\* the values the running maximum and minimum start from are in neither.
C31_HalfSpread ==
    \A s \in Live :
        Built(s) =>
            \E g \in {ExtentGeometry(hist[s].extent)} :
            \E points \in {g.cardin3DPlane} :
                /\ Len(points) = 9
                /\ points[9] = Zero3
                /\ NaturalBox(s).max[1] = (Highest(points, 2) - Lowest(points, 2)) \div 2
                /\ NaturalBox(s).max[2] = (Highest(points, 1) - Lowest(points, 1)) \div 2
                /\ NaturalBox(s).min[1] = -NaturalBox(s).max[1]
                /\ NaturalBox(s).min[2] = -NaturalBox(s).max[2]
                /\ \A axis \in 1..2 :
                       /\ Highest(points, axis) # -MinMaxStart
                       /\ Lowest(points, axis) # MinMaxStart

\* an OBB built from an extent of no width: every sample has the y coordinate
\* 0 of the centre sample, between the values the running maximum and minimum
\* start from, and the spread on x is wider than those values are apart
C31_Witness ==
    \E s \in Live :
        /\ Built(s)
        /\ hist[s].extent.west = hist[s].extent.east
        /\ NaturalBox(s).max[1] = 0
        /\ NaturalBox(s).max[2] > 2 * MinMaxStart

-----------------------------------------------------------------------------
(* C32 - C33: PlanarControls, the zenith angle of a rotation and the CTRL key *)

\* phi is between the limits of c
WithinLimits(c, phi) == c.minZenithAngle <= phi /\ phi <= c.maxZenithAngle

\* what C32 says of a mouse move during a rotation: phi stays between the
\* limits, and a move that would take it outside leaves phi as it is and
\* moves the camera as its azimuth part alone does
MoveLimited(c, move) ==
    Var(handleMouseMoveRotate(c, move.phiDelta, move.quarterTurn), LAMBDA moved :
        /\ WithinLimits(c, moved.phi)
        /\ ~WithinLimits(c, c.phi + move.phiDelta) =>
               /\ moved.phi = c.phi
               /\ moved.position = handleMouseMoveRotate(c, 0, move.quarterTurn).position)

\* C32: the zenith angle during a rotate drag.  In every state where the
\* control state is ROTATE, from initiateRotate until the mouse-up, phi is at
\* least minZenithAngle and at most maxZenithAngle, and a mouse move whose
\* phi would be outside these limits leaves phi unchanged while its azimuth
\* part is applied.
C32_ZenithWithinLimits ==
    controls.state = State.ROTATE =>
        /\ WithinLimits(controls, controls.phi)
        /\ \A move \in Moves : MoveLimited(controls, move)

\* the same for the rotations that initiateRotate starts between the limits:
\* a mouse move keeps phi there, and one that would take it outside changes
\* the azimuth alone
C32_MovesKeepLimits ==
    (controls.state = State.ROTATE /\ WithinLimits(controls, controls.phi)) =>
        \A move \in Moves : MoveLimited(controls, move)

\* C33: the CTRL flag.  In every state, whatever the control state and
\* whatever key-down and key-up events came before, during a travel or not,
\* isCtrlDown is true exactly when the CTRL key has been pressed and not yet
\* released; and so a left mousedown in the state NONE with CTRL held, after
\* a travel as before one, starts a rotation.
C33_CtrlFlagFaithful ==
    /\ controls.isCtrlDown = log.ctrlHeld
    /\ (controls.state = State.NONE /\ log.ctrlHeld) =>
           \A point \in PickedPoints :
               onMouseDown(controls, mouseButtons.LEFTCLICK, point, 0).state = State.ROTATE

\* one half of it holds in every state: the flag is set only while the key is
\* held, since onKeyUp clears it in every control state
C33_FlagOnlyWhileHeld == controls.isCtrlDown => log.ctrlHeld

====
